---- MODULE Spec2Model ----
(***************************************************************************)
(* Model of pydra's DiGraph (src/pydra/engine/graph.py): the node list,    *)
(* the edge list, the predecessors/successors maps, the in-flight bucket   *)
(* (_node_wip) and the cached sorted order (_sorted_nodes), with one       *)
(* action per public operation.  A node is identified by its name (the     *)
(* node contract makes names unique and stable), a list is a sequence and  *)
(* a dict is a function whose DOMAIN is its key set.                        *)
(*                                                                         *)
(* Every operation is an operator from a graph record to a result record   *)
(* [g, err, ret]: g is the graph as the call leaves it (after an exception *)
(* it holds whatever the call had already mutated), err names the          *)
(* exception ("none" if the call returned) and ret is the returned value.  *)
(***************************************************************************)
EXTENDS Naturals, Sequences, FiniteSets, TLC

\* ------------------------------------------------------------------ bounds
Names == {"A", "B", "C", "D"}

\* number of mutating calls made on a graph after its construction
MaxOps == 2

\* length of the edge list handed to the constructor
MaxEdges == 3

\* number of removal calls made on a graph when nothing else is called
MaxRemovals == 4

\* number of calls made on a node, its promises and its workflow
MaxLazyOps == 3

\* number of promises made
MaxPromises == 2

\* number of replicas of a split node, and of items in a list value
MaxReplicas == 2

\* ------------------------------------------------------- python primitives
Range(s) == {s[i] : i \in 1..Len(s)}

Count(s, x) == Cardinality({i \in 1..Len(s) : s[i] = x})

\* list.remove(x) on a list that holds x: drops the first occurrence
ListRemove(s, x) ==
    LET i == CHOOSE k \in 1..Len(s) : s[k] = x /\ \A j \in 1..(k - 1) : s[j] # x
    IN  SubSeq(s, 1, i - 1) \o SubSeq(s, i + 1, Len(s))

\* dict.pop(k)
Pop(f, k) == [x \in DOMAIN f \ {k} |-> f[x]]

NoDict == [x \in {} |-> <<>>]

\* the outcome of a call
Ok(g) == [g |-> g, err |-> "none", ret |-> {}]

Raise(g, e) == [g |-> g, err |-> e, ret |-> {}]

\* ------------------------------------------------------------ construction
\* DiGraph(): no nodes, no edges, empty maps, nothing sorted, nothing in flight
EmptyGraph ==
    [nodes |-> <<>>, edges |-> <<>>, predecessors |-> NoDict, successors |-> NoDict,
     sorted_set |-> FALSE, sorted_nodes |-> <<>>, node_wip |-> <<>>]

\* the nodes setter: raises on a repeated element
NodesSetterRaises(nodes) == nodes # <<>> /\ Cardinality(Range(nodes)) # Len(nodes)

\* an edges setter that checks the producer of an edge only
EdgesSetterProducerOnly(nodes, edges) ==
    edges # <<>> /\ \E i \in 1..Len(edges) : edges[i][1] \notin Range(nodes)

\* the edges setter: raises when an endpoint of any edge is not in self.nodes
EdgesSetterRaises(nodes, edges) ==
    edges # <<>> /\ \E i \in 1..Len(edges) :
        edges[i][1] \notin Range(nodes) \/ edges[i][2] \notin Range(nodes)

\* predecessors[n] / successors[n] as _create_connections appends them
PredsOf(edges, n) ==
    LET sel == SelectSeq(edges, LAMBDA e : e[2] = n)
    IN  [i \in 1..Len(sel) |-> sel[i][1]]

SuccsOf(edges, n) ==
    LET sel == SelectSeq(edges, LAMBDA e : e[1] = n)
    IN  [i \in 1..Len(sel) |-> sel[i][2]]

_create_connections(nodes, edges) ==
    [predecessors |-> [n \in Range(nodes) |-> PredsOf(edges, n)],
     successors   |-> [n \in Range(nodes) |-> SuccsOf(edges, n)]]

\* __init__(nodes, edges); on an exception no graph object exists (g0 is kept)
Construct(g0, nodes, edges) ==
    IF NodesSetterRaises(nodes) THEN Raise(g0, "ConfigurationError")
    ELSE IF EdgesSetterRaises(nodes, edges) THEN Raise(g0, "ConfigurationError")
    ELSE LET c == _create_connections(nodes, edges)
         IN  Ok([nodes |-> nodes, edges |-> edges,
                 predecessors |-> c.predecessors, successors |-> c.successors,
                 sorted_set |-> FALSE, sorted_nodes |-> <<>>, node_wip |-> <<>>])

\* ------------------------------------------------------------------ sorting
\* "for nd_in in self.successors[nd_out.name]: predecessors[nd_in.name].remove(nd_out)"
\* on the working copy p; a missing key or a missing element raises
RECURSIVE DropFromPreds(_, _, _)
DropFromPreds(p, nd_out, ins) ==
    IF ins = <<>> THEN [p |-> p, err |-> "none"]
    ELSE LET nd_in == Head(ins)
         IN  IF nd_in \notin DOMAIN p THEN [p |-> p, err |-> "KeyError"]
             ELSE IF nd_out \notin Range(p[nd_in]) THEN [p |-> p, err |-> "ValueError"]
             ELSE DropFromPreds([p EXCEPT ![nd_in] = ListRemove(@, nd_out)],
                                nd_out, Tail(ins))

\* the same for every nd_out of a list, in order
RECURSIVE DropAllFromPreds(_, _, _)
DropAllFromPreds(p, succ, outs) ==
    IF outs = <<>> THEN [p |-> p, err |-> "none"]
    ELSE LET nd_out == Head(outs)
         IN  IF nd_out \notin DOMAIN succ THEN [p |-> p, err |-> "KeyError"]
             ELSE LET r == DropFromPreds(p, nd_out, succ[nd_out])
                  IN  IF r.err # "none" THEN r
                      ELSE DropAllFromPreds(r.p, succ, Tail(outs))

\* a _sorting that takes every node of the list, whatever its predecessors
SortingIgnoringPredecessors(notsorted_list, predecessors) ==
    [sorted_part |-> notsorted_list, remaining_nodes |-> <<>>]

\* _sorting: the nodes of the list without predecessors, and the others
_sorting(notsorted_list, predecessors) ==
    [sorted_part     |-> SelectSeq(notsorted_list, LAMBDA nd : predecessors[nd] = <<>>),
     remaining_nodes |-> SelectSeq(notsorted_list, LAMBDA nd : predecessors[nd] # <<>>)]

\* the while loop of sorting; acc is self._sorted_nodes.  An iteration that
\* extracts no node leaves notsorted_nodes and predecessors as they were, so
\* the loop repeats that iteration forever: "Hang"
RECURSIVE SortLoop(_, _, _, _)
SortLoop(notsorted, p, succ, acc) ==
    IF notsorted = <<>> THEN [sorted |-> acc, err |-> "none"]
    ELSE IF \E i \in 1..Len(notsorted) : notsorted[i] \notin DOMAIN p
         THEN [sorted |-> acc, err |-> "KeyError"]
    ELSE LET s == _sorting(notsorted, p)
         IN  IF s.sorted_part = <<>> THEN [sorted |-> acc, err |-> "Hang"]
             ELSE LET r == DropAllFromPreds(p, succ, s.sorted_part)
                  IN  IF r.err # "none"
                      THEN [sorted |-> acc \o s.sorted_part, err |-> r.err]
                      ELSE SortLoop(s.remaining_nodes, r.p, succ, acc \o s.sorted_part)

\* a sorting that takes a seed for the sorted order
SortingTrustingSeed(g, presorted) ==
    LET g1 == [g EXCEPT !.sorted_set = TRUE, !.sorted_nodes = <<>>]
        w  == DropAllFromPreds(g.predecessors, g.successors, g.node_wip)
    IN  IF w.err # "none" THEN Raise(g1, w.err)
        ELSE IF presorted # <<>> THEN Ok([g1 EXCEPT !.sorted_nodes = presorted])
        ELSE LET r == SortLoop(g.nodes, w.p, g.successors, <<>>)
             IN  [g |-> [g1 EXCEPT !.sorted_nodes = r.sorted], err |-> r.err, ret |-> {}]

\* a sort for which the edges out of in-flight nodes still count
SortingBlockedByInFlight(g, presorted) ==
    LET notsorted == IF presorted # <<>> THEN presorted ELSE g.nodes
        g1        == [g EXCEPT !.sorted_set = TRUE, !.sorted_nodes = <<>>]
        r         == SortLoop(notsorted, g.predecessors, g.successors, <<>>)
    IN  [g |-> [g1 EXCEPT !.sorted_nodes = r.sorted], err |-> r.err, ret |-> {}]

\* sorting(presorted): presorted = <<>> stands for None (an empty list is falsy too)
sorting(g, presorted) ==
    LET notsorted == IF presorted # <<>> THEN presorted ELSE g.nodes
        g1        == [g EXCEPT !.sorted_set = TRUE, !.sorted_nodes = <<>>]
        w         == DropAllFromPreds(g.predecessors, g.successors, g.node_wip)
    IN  IF w.err # "none" THEN Raise(g1, w.err)
        ELSE LET r == SortLoop(notsorted, w.p, g.successors, <<>>)
             IN  [g |-> [g1 EXCEPT !.sorted_nodes = r.sorted], err |-> r.err, ret |-> {}]

\* the sorted_nodes property: sorts first when nothing is cached
sorted_nodes(g) == IF g.sorted_set THEN Ok(g) ELSE sorting(g, <<>>)

\* ------------------------------------------------------------- remove_nodes
Min(a, b) == IF a < b THEN a ELSE b

\* the for loop of remove_nodes: checks, then moves nd from nodes to _node_wip
RECURSIVE MarkLoop(_, _, _)
MarkLoop(g, nodes, check_ready) ==
    IF nodes = <<>> THEN Ok(g)
    ELSE LET nd == Head(nodes)
         IN  IF nd \notin Range(g.nodes) THEN Raise(g, "NotInGraph")
             ELSE IF nd \notin DOMAIN g.predecessors THEN Raise(g, "KeyError")
             ELSE IF g.predecessors[nd] # <<>> /\ check_ready THEN Raise(g, "NotReadyError")
             ELSE MarkLoop([g EXCEPT !.nodes = ListRemove(@, nd),
                                     !.node_wip = Append(@, nd)],
                           Tail(nodes), check_ready)

\* "for nd in nodes: self._sorted_nodes.remove(nd)"
RECURSIVE StripSorted(_, _)
StripSorted(g, nodes) ==
    IF nodes = <<>> THEN Ok(g)
    ELSE IF Head(nodes) \notin Range(g.sorted_nodes) THEN Raise(g, "ValueError")
    ELSE StripSorted([g EXCEPT !.sorted_nodes = ListRemove(@, Head(nodes))], Tail(nodes))

\* an update that leaves the retired nodes at the head of the sorted list
UpdateSortedKeepingHead(g, nodes) ==
    LET h == sorted_nodes(g)
    IN  IF h.err # "none" THEN h
        ELSE IF nodes = SubSeq(h.g.sorted_nodes, 1, Min(Len(nodes), Len(h.g.sorted_nodes)))
        THEN Ok(h.g)
        ELSE LET s == StripSorted(h.g, nodes)
             IN  IF s.err # "none" THEN s ELSE sorting(s.g, s.g.sorted_nodes)

\* the update of the sorted list that ends remove_nodes; hasattr(self,
\* "sorted_nodes") evaluates the property, which sorts when nothing is cached
UpdateSorted(g, nodes) ==
    LET h == sorted_nodes(g)
    IN  IF h.err # "none" THEN h
        ELSE IF nodes = SubSeq(h.g.sorted_nodes, 1, Min(Len(nodes), Len(h.g.sorted_nodes)))
        THEN Ok([h.g EXCEPT !.sorted_nodes = SubSeq(@, Len(nodes) + 1, Len(@))])
        ELSE LET s == StripSorted(h.g, nodes)
             IN  IF s.err # "none" THEN s ELSE sorting(s.g, s.g.sorted_nodes)

remove_nodes(g, nodes, check_ready) ==
    LET m == MarkLoop(g, nodes, check_ready)
    IN  IF m.err # "none" THEN m ELSE UpdateSorted(m.g, nodes)

\* -------------------------------------------------- remove_nodes_connections
\* a detachment that drops nd from predecessors[nd_in] and keeps the edge
RECURSIVE DetachOutKeepingEdges(_, _, _)
DetachOutKeepingEdges(g, nd, ins) ==
    IF ins = <<>> THEN Ok(g)
    ELSE LET nd_in == Head(ins)
         IN  IF nd_in \notin DOMAIN g.predecessors THEN Raise(g, "KeyError")
             ELSE IF nd \notin Range(g.predecessors[nd_in]) THEN Raise(g, "ValueError")
             ELSE DetachOutKeepingEdges([g EXCEPT !.predecessors[nd_in] = ListRemove(@, nd)],
                                        nd, Tail(ins))

\* the inner loop: drop nd from predecessors[nd_in], drop edge (nd, nd_in)
RECURSIVE DetachOut(_, _, _)
DetachOut(g, nd, ins) ==
    IF ins = <<>> THEN Ok(g)
    ELSE LET nd_in == Head(ins)
         IN  IF nd_in \notin DOMAIN g.predecessors THEN Raise(g, "KeyError")
             ELSE IF nd \notin Range(g.predecessors[nd_in]) THEN Raise(g, "ValueError")
             ELSE LET g1 == [g EXCEPT !.predecessors[nd_in] = ListRemove(@, nd)]
                  IN  IF <<nd, nd_in>> \notin Range(g1.edges) THEN Raise(g1, "ValueError")
                      ELSE DetachOut([g1 EXCEPT !.edges = ListRemove(@, <<nd, nd_in>>)],
                                     nd, Tail(ins))

\* successors.pop, predecessors.pop, _node_wip.remove
Forget(g, nd) ==
    IF nd \notin DOMAIN g.successors THEN Raise(g, "KeyError")
    ELSE LET g1 == [g EXCEPT !.successors = Pop(@, nd)]
         IN  IF nd \notin DOMAIN g1.predecessors THEN Raise(g1, "KeyError")
             ELSE LET g2 == [g1 EXCEPT !.predecessors = Pop(@, nd)]
                  IN  IF nd \notin Range(g2.node_wip) THEN Raise(g2, "ValueError")
                      ELSE Ok([g2 EXCEPT !.node_wip = ListRemove(@, nd)])

RECURSIVE remove_nodes_connections(_, _)
remove_nodes_connections(g, nodes) ==
    IF nodes = <<>> THEN Ok(g)
    ELSE LET nd == Head(nodes)
         IN  IF nd \notin DOMAIN g.successors THEN Raise(g, "KeyError")
             ELSE LET d == DetachOut(g, nd, g.successors[nd])
                  IN  IF d.err # "none" THEN d
                      ELSE LET f == Forget(d.g, nd)
                           IN  IF f.err # "none" THEN f
                               ELSE remove_nodes_connections(f.g, Tail(nodes))

\* ----------------------------------------------- remove_previous_connections
\* a detachment that passes over a predecessor without a key
RECURSIVE DetachInFromKeyed(_, _, _)
DetachInFromKeyed(g, nd, outs) ==
    IF outs = <<>> THEN Ok(g)
    ELSE LET nd_out == Head(outs)
         IN  IF nd_out \notin DOMAIN g.successors THEN DetachInFromKeyed(g, nd, Tail(outs))
             ELSE IF nd \notin Range(g.successors[nd_out]) THEN Raise(g, "ValueError")
             ELSE LET g1 == [g EXCEPT !.successors[nd_out] = ListRemove(@, nd)]
                  IN  IF <<nd_out, nd>> \notin Range(g1.edges) THEN Raise(g1, "ValueError")
                      ELSE DetachInFromKeyed([g1 EXCEPT !.edges = ListRemove(@, <<nd_out, nd>>)],
                                             nd, Tail(outs))

\* the inner loop: drop nd from successors[nd_out] if nd_out still has a key,
\* drop edge (nd_out, nd)
RECURSIVE DetachIn(_, _, _)
DetachIn(g, nd, outs) ==
    IF outs = <<>> THEN Ok(g)
    ELSE LET nd_out == Head(outs)
         IN  IF nd_out \in DOMAIN g.successors /\ nd \notin Range(g.successors[nd_out])
             THEN Raise(g, "ValueError")
             ELSE LET g1 == IF nd_out \in DOMAIN g.successors
                            THEN [g EXCEPT !.successors[nd_out] = ListRemove(@, nd)]
                            ELSE g
                  IN  IF <<nd_out, nd>> \notin Range(g1.edges) THEN Raise(g1, "ValueError")
                      ELSE DetachIn([g1 EXCEPT !.edges = ListRemove(@, <<nd_out, nd>>)],
                                    nd, Tail(outs))

RECURSIVE remove_previous_connections(_, _)
remove_previous_connections(g, nodes) ==
    IF nodes = <<>> THEN Ok(g)
    ELSE LET nd == Head(nodes)
         IN  IF nd \notin DOMAIN g.predecessors THEN Raise(g, "KeyError")
             ELSE LET d == DetachIn(g, nd, g.predecessors[nd])
                  IN  IF d.err # "none" THEN d
                      ELSE LET f == Forget(d.g, nd)
                           IN  IF f.err # "none" THEN f
                               ELSE remove_previous_connections(f.g, Tail(nodes))

\* --------------------------------------------------- remove_successors_nodes
\* _checking_successors_nodes: appends every successor to _successors_all and
\* recurses into it.  The call re-enters itself on a node that is already on
\* the call stack exactly when a cycle is reachable, and then never returns:
\* "RecursionError"
RECURSIVE _checking_successors_nodes(_, _, _, _)
RECURSIVE CheckingLoop(_, _, _, _)
_checking_successors_nodes(succ, node, stack, all) ==
    IF node \notin DOMAIN succ THEN [all |-> all, err |-> "KeyError"]
    ELSE IF node \in stack THEN [all |-> all, err |-> "RecursionError"]
    ELSE CheckingLoop(succ, succ[node], stack \cup {node}, all)

CheckingLoop(succ, ins, stack, all) ==
    IF ins = <<>> THEN [all |-> all, err |-> "none"]
    ELSE LET r == _checking_successors_nodes(succ, Head(ins), stack, Append(all, Head(ins)))
         IN  IF r.err # "none" THEN r ELSE CheckingLoop(succ, Tail(ins), stack, r.all)

\* the for loop of remove_successors_nodes over _successors_all
RECURSIVE CancelLoop(_, _, _)
CancelLoop(g, all, nodes_removed) ==
    IF all = <<>> THEN [g |-> g, err |-> "none", ret |-> nodes_removed]
    ELSE LET nd == Head(all)
         IN  IF nd \notin Range(g.nodes) THEN CancelLoop(g, Tail(all), nodes_removed)
             ELSE LET m == remove_nodes(g, <<nd>>, FALSE)
                  IN  IF m.err # "none" THEN m
                      ELSE LET p == remove_previous_connections(m.g, <<nd>>)
                           IN  IF p.err # "none" THEN p
                               ELSE CancelLoop(p.g, Tail(all), nodes_removed \cup {nd})

\* remove_successors_nodes cancelling every active node
RemoveSuccessorsNodesOfAll(g, node) ==
    LET c == _checking_successors_nodes(g.successors, node, {}, <<>>)
    IN  IF c.err # "none" THEN Raise(g, c.err)
        ELSE LET d == remove_nodes_connections(g, <<node>>)
             IN  IF d.err # "none" THEN d ELSE CancelLoop(d.g, d.g.nodes, {})

remove_successors_nodes(g, node) ==
    LET c == _checking_successors_nodes(g.successors, node, {}, <<>>)
    IN  IF c.err # "none" THEN Raise(g, c.err)
        ELSE LET d == remove_nodes_connections(g, <<node>>)
             IN  IF d.err # "none" THEN d ELSE CancelLoop(d.g, c.all, {})

\* ------------------------------------------------------- calculate_max_paths
\* max(a, b)
Max(a, b) == IF a < b THEN b ELSE a

\* dict[k] = v
Put(f, k, v) == [x \in DOMAIN f \cup {k} |-> IF x = k THEN v ELSE f[x]]

NoPaths == [x \in {} |-> 0]

\* _checking_path: mp is self.max_paths[first_name].  The call re-enters
\* itself on a node that is already on the call stack exactly when a cycle is
\* reachable, and then never returns: "RecursionError"
RECURSIVE _checking_path(_, _, _, _, _)
RECURSIVE PathLoop(_, _, _, _, _)
_checking_path(succ, node_name, path, stack, mp) ==
    IF node_name \notin DOMAIN succ THEN [mp |-> mp, err |-> "KeyError"]
    ELSE IF node_name \in stack THEN [mp |-> mp, err |-> "RecursionError"]
    ELSE PathLoop(succ, succ[node_name], path, stack \cup {node_name}, mp)

PathLoop(succ, ins, path, stack, mp) ==
    IF ins = <<>> THEN [mp |-> mp, err |-> "none"]
    ELSE LET nd_in == Head(ins)
             mp1   == IF nd_in \in DOMAIN mp
                      THEN [mp EXCEPT ![nd_in] = Max(@, path + 1)]
                      ELSE Put(mp, nd_in, path + 1)
             r     == _checking_path(succ, nd_in, path + 1, stack, mp1)
         IN  IF r.err # "none" THEN r ELSE PathLoop(succ, Tail(ins), path, stack, r.mp)

\* the for loop of calculate_max_paths over first_nodes; max_paths is the map
\* built so far
RECURSIVE FirstNodesLoop(_, _, _)
FirstNodesLoop(g, first_nodes, max_paths) ==
    IF first_nodes = {} THEN [g |-> g, err |-> "none", ret |-> max_paths]
    ELSE LET nm == CHOOSE n \in first_nodes : TRUE
             r  == _checking_path(g.successors, nm, 0, {}, NoPaths)
             mx == Put(max_paths, nm, r.mp)
         IN  IF r.err # "none" THEN [g |-> g, err |-> r.err, ret |-> mx]
             ELSE FirstNodesLoop(g, first_nodes \ {nm}, mx)

\* calculate_max_paths: ret is self.max_paths as the call leaves it, an
\* attribute that no other operation reads or writes
calculate_max_paths(g) ==
    LET first_nodes == {key \in DOMAIN g.predecessors : g.predecessors[key] = <<>>}
    IN  FirstNodesLoop(g, first_nodes, [x \in {} |-> NoPaths])

\* ------------------------------------------------------ add_nodes, add_edges
\* an add_nodes that gives the new nodes their empty lists in the maps
\* before it hands the node list to the setter
AddNodesMapsFirst(g, new_nodes) ==
    LET g1 == [g EXCEPT
                 !.predecessors = [x \in DOMAIN @ \cup Range(new_nodes) |->
                                     IF x \in Range(new_nodes) THEN <<>> ELSE @[x]],
                 !.successors = [x \in DOMAIN @ \cup Range(new_nodes) |->
                                     IF x \in Range(new_nodes) THEN <<>> ELSE @[x]]]
    IN  IF NodesSetterRaises(g.nodes \o new_nodes) THEN Raise(g1, "ConfigurationError")
        ELSE LET g2 == [g1 EXCEPT !.nodes = @ \o new_nodes]
             IN  IF g2.sorted_set THEN sorting(g2, g2.sorted_nodes \o new_nodes) ELSE Ok(g2)

add_nodes(g, new_nodes) ==
    IF NodesSetterRaises(g.nodes \o new_nodes) THEN Raise(g, "ConfigurationError")
    ELSE LET g1 == [g EXCEPT
                      !.nodes = @ \o new_nodes,
                      !.predecessors = [x \in DOMAIN @ \cup Range(new_nodes) |->
                                          IF x \in Range(new_nodes) THEN <<>> ELSE @[x]],
                      !.successors = [x \in DOMAIN @ \cup Range(new_nodes) |->
                                          IF x \in Range(new_nodes) THEN <<>> ELSE @[x]]]
         IN  IF g1.sorted_set THEN sorting(g1, g1.sorted_nodes \o new_nodes) ELSE Ok(g1)

\* the for loop of add_edges: append to both maps
RECURSIVE ConnectLoop(_, _)
ConnectLoop(g, new_edges) ==
    IF new_edges = <<>> THEN Ok(g)
    ELSE LET nd_out == Head(new_edges)[1]
             nd_in  == Head(new_edges)[2]
         IN  IF nd_in \notin DOMAIN g.predecessors THEN Raise(g, "KeyError")
             ELSE LET g1 == [g EXCEPT !.predecessors[nd_in] = Append(@, nd_out)]
                  IN  IF nd_out \notin DOMAIN g1.successors THEN Raise(g1, "KeyError")
                      ELSE ConnectLoop([g1 EXCEPT !.successors[nd_out] = Append(@, nd_in)],
                                       Tail(new_edges))

\* an add_edges that leaves the cached sorted order as it was
AddEdgesWithoutResort(g, new_edges) ==
    IF EdgesSetterRaises(g.nodes, g.edges \o new_edges) THEN Raise(g, "ConfigurationError")
    ELSE ConnectLoop([g EXCEPT !.edges = @ \o new_edges], new_edges)

add_edges(g, new_edges) ==
    IF EdgesSetterRaises(g.nodes, g.edges \o new_edges) THEN Raise(g, "ConfigurationError")
    ELSE LET c == ConnectLoop([g EXCEPT !.edges = @ \o new_edges], new_edges)
         IN  IF c.err # "none" THEN c
             ELSE IF c.g.sorted_set THEN sorting(c.g, c.g.sorted_nodes) ELSE c

\* --------------------------------------------------------------------- copy
\* The containers of a graph are objects.  Two graphs that hold the same
\* object both see what a call does to it in place (append, remove, pop, item
\* assignment); a call that binds the attribute of its graph to a new object
\* leaves the old object, and the graph that still holds it, as they were.
\* A sharing names the objects two graphs hold in common: top the attributes
\* (_nodes, _node_wip, _edges, _sorted_nodes, predecessors, successors), pred
\* and succ the keys whose list in the map is the same object in both.
NothingShared == [top |-> {}, pred |-> {}, succ |-> {}]

\* a copy that makes new maps of the lists the original holds
CopyOfMapsOnly(gr) ==
    [g      |-> [gr EXCEPT !.sorted_set = gr.sorted_set /\ gr.sorted_nodes # <<>>],
     shared |-> [top |-> {}, pred |-> DOMAIN gr.predecessors, succ |-> DOMAIN gr.successors]]

\* copy(): every list is sliced ([:]) and each map is rebuilt key by key
\* from slices, so that no container is held in common; an empty sorted list
\* is falsy and is copied as None
copy(gr) ==
    [g      |-> [gr EXCEPT !.sorted_set = gr.sorted_set /\ gr.sorted_nodes # <<>>],
     shared |-> NothingShared]

NoTwin == [made |-> FALSE, g |-> EmptyGraph, shared |-> NothingShared, on |-> "none"]

\* the attributes the call bound to a new object: the nodes and edges setters
\* assign the concatenation they were given, sorting() starts with
\* self._sorted_nodes = [] and remove_nodes assigns a slice of the sorted list
Rebound(op, x, nodes, check_ready, r) ==
    (IF op = "AddNodes" /\ r.err # "ConfigurationError" THEN {"nodes"} ELSE {})
    \cup (IF op = "AddEdges" /\ r.err # "ConfigurationError" THEN {"edges"} ELSE {})
    \cup (IF \/ op = "Sort"
             \/ op \in {"AddNodes", "AddEdges"} /\ r.err = "none" /\ x.sorted_set
             \/ op = "RemoveNodes" /\ MarkLoop(x, nodes, check_ready).err = "none"
          THEN {"sorted_nodes"} ELSE {})

\* the list that was the graph's _sorted_nodes before the call, after it:
\* remove_nodes takes the nodes out of it (unless they lead it) before it
\* sorts again, every other call leaves it alone
OldSortedList(op, x, nodes, check_ready) ==
    LET m == MarkLoop(x, nodes, check_ready)
    IN  IF /\ op = "RemoveNodes"
           /\ m.err = "none"
           /\ nodes # SubSeq(x.sorted_nodes, 1, Min(Len(nodes), Len(x.sorted_nodes)))
        THEN StripSorted(m.g, nodes).g.sorted_nodes
        ELSE x.sorted_nodes

\* the list that was under key k of a map before the call, after it: the
\* list of a key the call popped (remove_nodes_connections) lost the nodes of
\* the call before the pop
OldAdjacencyList(old, new, k, nodes) ==
    IF k \in DOMAIN new THEN new[k]
    ELSE SelectSeq(old[k], LAMBDA n : n \notin Range(nodes))

\* the keys of a map the call bound to a new list: add_nodes assigns [] to
\* the names of the new nodes
ReboundKeys(op, nodes, r) ==
    IF op = "AddNodes" /\ r.err # "ConfigurationError" THEN Range(nodes) ELSE {}

\* a map of the other graph after the call: the same map, or its own map with
\* the lists it has in common with the called graph as the call left them
SeenMap(own, old, new, whole, keys, op, nodes, r) ==
    IF whole THEN new
    ELSE [k \in DOMAIN own |->
            IF k \in (keys \ ReboundKeys(op, nodes, r)) /\ k \in DOMAIN old
            THEN OldAdjacencyList(old, new, k, nodes)
            ELSE own[k]]

\* the other graph y after op was called on x and left it as r.g
Seen(y, shared, op, x, nodes, check_ready, r) ==
    LET rebound == Rebound(op, x, nodes, check_ready, r)
        inplace == shared.top \ rebound
    IN  [nodes        |-> IF "nodes" \in inplace THEN r.g.nodes ELSE y.nodes,
         edges        |-> IF "edges" \in inplace THEN r.g.edges ELSE y.edges,
         node_wip     |-> IF "node_wip" \in inplace THEN r.g.node_wip ELSE y.node_wip,
         predecessors |-> SeenMap(y.predecessors, x.predecessors, r.g.predecessors,
                                  "predecessors" \in shared.top, shared.pred, op, nodes, r),
         successors   |-> SeenMap(y.successors, x.successors, r.g.successors,
                                  "successors" \in shared.top, shared.succ, op, nodes, r),
         sorted_set   |-> y.sorted_set,
         sorted_nodes |-> IF "sorted_nodes" \in inplace THEN r.g.sorted_nodes
                          ELSE IF "sorted_nodes" \in shared.top
                          THEN OldSortedList(op, x, nodes, check_ready)
                          ELSE y.sorted_nodes]

\* what the two graphs still hold in common after the call
StillShared(shared, op, x, nodes, check_ready, r) ==
    [top  |-> shared.top \ Rebound(op, x, nodes, check_ready, r),
     pred |-> (shared.pred \cap DOMAIN r.g.predecessors) \ ReboundKeys(op, nodes, r),
     succ |-> (shared.succ \cap DOMAIN r.g.successors) \ ReboundKeys(op, nodes, r)]

\* ============================================================= lazy fields
\* (src/pydra/engine/specs.py)  A declared type is the list of its nested
\* container types, outermost first, followed by the item type:
\* Split[List[int]] is <<"Split", "List", "int">> and Any is <<"Any">>.
\* A splitter is the tuple of the field names it names: the splitter "x" is
\* <<"x">> and the composite splitter ("x", "y") is <<"x", "y">>.
\* A value is a tree: an atom, a plain list or a Split of values.
AnyType == <<"Any">>

Atom(n) == [kind |-> "atom", v |-> n, items |-> <<>>]

ListOf(items) == [kind |-> "list", v |-> 0, items |-> items]

SplitOf(items) == [kind |-> "split", v |-> 0, items |-> items]

NoValue == [kind |-> "none", v |-> 0, items |-> <<>>]

\* the outcome of a call that yields a value
Value(val) == [err |-> "none", val |-> val]

Fail(e) == [err |-> e, val |-> NoValue]

MinOf(S) == CHOOSE x \in S : \A y \in S : x <= y

\* TypeParser.is_subclass(type, Split)
IsSplitType(type) == type[1] = "Split"

\* TypeParser.nested_sequence_types(type, only_splits): the container types
\* the declared type is nested in, outermost first
RECURSIVE nested_sequence_types(_, _)
nested_sequence_types(type, only_splits) ==
    IF Len(type) > 1 /\ (IF only_splits THEN type[1] = "Split" ELSE type[1] \in {"Split", "List"})
    THEN <<type[1]>> \o nested_sequence_types(Tail(type), only_splits)
    ELSE <<>>

\* TypeParser.get_item_type(type): the type of the items of a sequence type;
\* <<>> stands for the TypeError raised on a type that is not a sequence
get_item_type(type) == IF Len(type) > 1 THEN Tail(type) ELSE <<>>

\* TaskBase._unwrap_splitter(s): the field names a splitter names
_unwrap_splitter(s) == Range(s)

\* a loop over the combiners that removes every splitter that names the combiner
RECURSIVE NarrowSplitsEveryMention(_, _)
NarrowSplitsEveryMention(splits, combines) ==
    IF combines = <<>> THEN {[splits |-> splits, err |-> "none"]}
    ELSE LET combiner == Head(combines)
         IN  IF <<combiner>> \in splits
             THEN NarrowSplitsEveryMention(splits \ {<<combiner>>}, Tail(combines))
             ELSE LET named == {s \in splits : combiner \in _unwrap_splitter(s)}
                  IN  IF named = {} THEN {[splits |-> splits, err |-> "StopIteration"]}
                      ELSE NarrowSplitsEveryMention(splits \ named, Tail(combines))

\* the loop over the combiners in LazyInterface.__getattr__: each combiner is
\* removed from splits, or else the first splitter found that names it is (the
\* iteration order of a set is not fixed, so every splitter that names it is a
\* possible outcome); next() raises StopIteration when no splitter names it.
\* The result is the set of possible outcomes, each with splits as it is left.
RECURSIVE NarrowSplits(_, _)
NarrowSplits(splits, combines) ==
    IF combines = <<>> THEN {[splits |-> splits, err |-> "none"]}
    ELSE LET combiner == Head(combines)
         IN  IF <<combiner>> \in splits
             THEN NarrowSplits(splits \ {<<combiner>>}, Tail(combines))
             ELSE LET named == {s \in splits : combiner \in _unwrap_splitter(s)}
                  IN  IF named = {} THEN {[splits |-> splits, err |-> "StopIteration"]}
                      ELSE UNION {NarrowSplits(splits \ {s}, Tail(combines)) : s \in named}

\* the type a promise is given: the declared type of the field in a plain list
\* if the node has combiners, and that in a Split if splitters remain open
WrapType(type, splits, combines) ==
    LET listed == IF combines # <<>> THEN <<"List">> \o type ELSE type
    IN  IF splits # {} THEN <<"Split">> \o listed ELSE listed

\* a LazyField object.  Its splits attribute is a reference to a set object:
\* shared says that the object is the node's own _splits set (whose content is
\* then task.splits); otherwise the promise has a set of its own, splits
LazyField(name, field, attr_type, type, shared, splits) ==
    [name |-> name, field |-> field, attr_type |-> attr_type, type |-> type,
     shared |-> shared, splits |-> splits]

NoField == LazyField("", "", "", <<>>, FALSE, {})

\* LazyInterface.__getattr__(name) on node t, whose fields have the declared
\* types types (LazyIn._get_type, LazyOut._get_type): the set of possible
\* outcomes, each with the node as the call leaves it
LazyGetattr(t, attr_type, types, name) ==
    IF name \notin DOMAIN types
    THEN {[task |-> t, err |-> "AttributeError", lf |-> NoField]}
    ELSE {[task |-> [t EXCEPT !.splits = n.splits],
           err  |-> n.err,
           lf   |-> IF n.err # "none" THEN NoField
                    ELSE LazyField(t.name, name, attr_type,
                                   WrapType(types[name], n.splits, t.combines), TRUE, {})]
          : n \in NarrowSplits(t.splits, t.combines)}

\* the content of the set a promise's splits attribute refers to
SplitsOf(lf, t) == IF lf.shared THEN t.splits ELSE lf.splits

\* LazyField.cast(new_type)
cast(lf, new_type) ==
    [err |-> "none", lf |-> LazyField(lf.name, lf.field, lf.attr_type, new_type, FALSE, {})]

\* LazyField.split(splitter), splitter being a splitter, a list of splitters
\* (as_list) or None (is_none)
split(lf, t, splitter) ==
    LET item_type == get_item_type(lf.type)
        type_     == IF lf.type = AnyType THEN <<"Split", "Any">> ELSE <<"Split">> \o item_type
    IN  IF lf.type # AnyType /\ item_type = <<>> THEN [err |-> "TypeError", lf |-> NoField]
        ELSE IF splitter.is_none THEN [err |-> "TypeError", lf |-> NoField]
        ELSE [err |-> "none",
              lf  |-> LazyField(lf.name, lf.field, lf.attr_type, type_, FALSE,
                                splitter.items \cup SplitsOf(lf, t))]

\* a Result of the node (errored or not, with the value of its output field),
\* and the list node.result() returns for a node with several replicas
Result(errored, output) == [kind |-> "res", errored |-> errored, output |-> output, items |-> <<>>]

ResultList(items) == [kind |-> "list", errored |-> FALSE, output |-> NoValue, items |-> items]

\* Split(val) on a value: a Split of its items; an atom is not iterable
AsSplit(val) ==
    IF val.kind = "atom" THEN Fail("TypeError") ELSE Value(SplitOf(val.items))

\* apply_splits(obj, depth) in LazyField.get_value
RECURSIVE apply_splits(_, _)
apply_splits(obj, depth) ==
    IF depth < 1 THEN Value(obj)
    ELSE IF obj.kind = "atom" THEN Fail("TypeError")
    ELSE LET sub == [i \in 1..Len(obj.items) |-> apply_splits(obj.items[i], depth - 1)]
             bad == {i \in 1..Len(obj.items) : sub[i].err # "none"}
         IN  IF bad # {} THEN Fail(sub[MinOf(bad)].err)
             ELSE Value(SplitOf([i \in 1..Len(obj.items) |-> sub[i].val]))

\* get_nested_results without the test of errored: the output of an errored
\* Result is handed on like any other
RECURSIVE GetNestedResultsIgnoringErrored(_, _)
GetNestedResultsIgnoringErrored(res, nested_seqs) ==
    IF res.kind = "list"
    THEN IF nested_seqs = <<>> THEN Fail("TypeMismatch")
         ELSE LET sub == [i \in 1..Len(res.items) |->
                             GetNestedResultsIgnoringErrored(res.items[i], Tail(nested_seqs))]
                  bad == {i \in 1..Len(res.items) : sub[i].err # "none"}
                  val == [i \in 1..Len(res.items) |-> sub[i].val]
              IN  IF bad # {} THEN Fail(sub[MinOf(bad)].err)
                  ELSE Value(IF nested_seqs[1] = "Split" THEN SplitOf(val) ELSE ListOf(val))
    ELSE IF nested_seqs = <<"Split">> THEN AsSplit(res.output)
    ELSE Value(res.output)

\* get_nested_results(res, nested_seqs) in LazyField.get_value: the error
\* raised for results nested deeper than the declared type is TypeMismatch
\* and the one raised for an errored Result is UpstreamFailure
RECURSIVE get_nested_results(_, _)
get_nested_results(res, nested_seqs) ==
    IF res.kind = "list"
    THEN IF nested_seqs = <<>> THEN Fail("TypeMismatch")
         ELSE LET sub == [i \in 1..Len(res.items) |->
                             get_nested_results(res.items[i], Tail(nested_seqs))]
                  bad == {i \in 1..Len(res.items) : sub[i].err # "none"}
                  val == [i \in 1..Len(res.items) |-> sub[i].val]
              IN  IF bad # {} THEN Fail(sub[MinOf(bad)].err)
                  ELSE Value(IF nested_seqs[1] = "Split" THEN SplitOf(val) ELSE ListOf(val))
    ELSE IF res.errored THEN Fail("UpstreamFailure")
    ELSE IF nested_seqs = <<"Split">> THEN AsSplit(res.output)
    ELSE Value(res.output)

\* LazyField.get_value(wf): wf.value is the workflow's bound input for the
\* field, wf.pre_split its pre_split attribute and wf.result what the node's
\* result() returns
get_value(lf, wf) ==
    IF lf.attr_type = "input"
    THEN IF IsSplitType(lf.type) /\ ~wf.pre_split
         THEN apply_splits(wf.value, Len(nested_sequence_types(lf.type, TRUE)))
         ELSE Value(wf.value)
    ELSE get_nested_results(wf.result, nested_sequence_types(lf.type, FALSE))

\* ============================================================ input specs
\* (BaseSpec, src/pydra/engine/specs.py)  A spec is its declared fields in
\* the order of their declaration, the metadata of each and the value of each;
\* the value of a field that is not set is attr.NOTHING.
NOTHING == "NOTHING"

\* hash_function(obj): the content hash, an injective function of obj
hash_function(obj) == [digest |-> obj]

\* the names BaseSpec.hash leaves out
HashExcludeNames == {"_graph_checksums", "bindings", "files_hash"}

\* a hash that leaves the fields with an output_file_template in
HashWithTemplates(spec) ==
    LET kept     == {f \in Range(spec.fields) \ HashExcludeNames :
                        /\ spec.values[f] # NOTHING
                        /\ ~spec.meta[f].container_path}
        inp_dict == [f \in kept |-> spec.values[f]]
        inp_hash == hash_function(inp_dict)
    IN  IF "_graph_checksums" \in Range(spec.fields)
        THEN hash_function([inp_hash |-> inp_hash, graph_checksums |-> spec.values["_graph_checksums"]])
        ELSE inp_hash

\* BaseSpec.hash
hash(spec) ==
    LET kept     == {f \in Range(spec.fields) \ HashExcludeNames :
                        /\ ~spec.meta[f].output_file_template
                        /\ spec.values[f] # NOTHING
                        /\ ~spec.meta[f].container_path}
        inp_dict == [f \in kept |-> spec.values[f]]
        inp_hash == hash_function(inp_dict)
    IN  IF "_graph_checksums" \in Range(spec.fields)
        THEN hash_function([inp_hash |-> inp_hash, graph_checksums |-> spec.values["_graph_checksums"]])
        ELSE inp_hash

IsSet(spec, name) == spec.values[name] # NOTHING

\* the loop of check_fields_input_spec that takes a field for its own
\* alternative
RECURSIVE CheckFieldsCountingSelf(_, _)
CheckFieldsCountingSelf(spec, fields) ==
    IF fields = <<>> THEN "none"
    ELSE LET field == Head(fields)
             field_is_mandatory   == spec.meta[field].mandatory
             field_is_unset       == ~IsSet(spec, field)
             alternative_fields   == spec.meta[field].xor
             alternatives_are_set == \E name \in alternative_fields : IsSet(spec, name)
             required_fields      == spec.meta[field].requires \ {field}
         IN  IF field_is_unset /\ ~field_is_mandatory
             THEN CheckFieldsCountingSelf(spec, Tail(fields))
             ELSE IF field_is_unset
             THEN IF alternatives_are_set THEN CheckFieldsCountingSelf(spec, Tail(fields))
                  ELSE "AttributeError"
             ELSE IF alternatives_are_set THEN "AttributeError"
             ELSE IF \E name \in required_fields : ~IsSet(spec, name) THEN "AttributeError"
             ELSE CheckFieldsCountingSelf(spec, Tail(fields))

\* the loop over the fields in BaseSpec.check_fields_input_spec: the exception
\* raised at the first field that breaks a rule, "none" if the loop ends
RECURSIVE CheckFields(_, _)
CheckFields(spec, fields) ==
    IF fields = <<>> THEN "none"
    ELSE LET field == Head(fields)
             field_is_mandatory   == spec.meta[field].mandatory
             field_is_unset       == ~IsSet(spec, field)
             alternative_fields   == spec.meta[field].xor \ {field}
             alternatives_are_set == \E name \in alternative_fields : IsSet(spec, name)
             required_fields      == spec.meta[field].requires \ {field}
         IN  IF field_is_unset /\ ~field_is_mandatory
             THEN CheckFields(spec, Tail(fields))
             ELSE IF field_is_unset
             THEN IF alternatives_are_set THEN CheckFields(spec, Tail(fields))
                  ELSE "AttributeError"
             ELSE IF alternatives_are_set THEN "AttributeError"
             ELSE IF \E name \in required_fields : ~IsSet(spec, name) THEN "AttributeError"
             ELSE CheckFields(spec, Tail(fields))

\* BaseSpec.check_fields_input_spec
check_fields_input_spec(spec) == CheckFields(spec, spec.fields)

\* ------------------------------------------------------- retrieve_values
\* what a field of a spec holds when fields may hold promises: a LazyField,
\* or a value (NoValue for attr.NOTHING)
Promised(lf) == [is_lazy |-> TRUE, lf |-> lf, val |-> NoValue]

Held(val) == [is_lazy |-> FALSE, lf |-> NoField, val |-> val]

\* the first loop of retrieve_values: temp_values, or the exception of the
\* first get_value that raises; skip_templates is ShellSpec's test of
\* output_file_template
RECURSIVE RetrieveLoop(_, _, _, _, _)
RetrieveLoop(spec, wf, fields, temp_values, skip_templates) ==
    IF fields = <<>> THEN [err |-> "none", temp_values |-> temp_values]
    ELSE LET field == Head(fields)
             value == spec.values[field]
         IN  IF skip_templates /\ spec.meta[field].output_file_template
             THEN RetrieveLoop(spec, wf, Tail(fields), temp_values, skip_templates)
             ELSE IF ~value.is_lazy
             THEN RetrieveLoop(spec, wf, Tail(fields), temp_values, skip_templates)
             ELSE LET r == get_value(value.lf, wf)
                  IN  IF r.err # "none" THEN [err |-> r.err, temp_values |-> temp_values]
                      ELSE RetrieveLoop(spec, wf, Tail(fields),
                                        Append(temp_values, <<field, r.val>>), skip_templates)

\* the second loop: setattr(self, field, val) for the items of temp_values
RECURSIVE SetAll(_, _)
SetAll(spec, temp_values) ==
    IF temp_values = <<>> THEN spec
    ELSE SetAll([spec EXCEPT !.values[Head(temp_values)[1]] = Held(Head(temp_values)[2])],
                Tail(temp_values))

\* a resolution that sets each field as soon as its value is known
RECURSIVE RetrieveSettingAtOnce(_, _, _)
RetrieveSettingAtOnce(spec, wf, fields) ==
    IF fields = <<>> THEN [spec |-> spec, err |-> "none"]
    ELSE LET value == spec.values[Head(fields)]
         IN  IF ~value.is_lazy THEN RetrieveSettingAtOnce(spec, wf, Tail(fields))
             ELSE LET r == get_value(value.lf, wf)
                  IN  IF r.err # "none" THEN [spec |-> spec, err |-> r.err]
                      ELSE RetrieveSettingAtOnce(
                               [spec EXCEPT !.values[Head(fields)] = Held(r.val)],
                               wf, Tail(fields))

RetrieveValuesSettingAtOnce(spec, wf) == RetrieveSettingAtOnce(spec, wf, spec.fields)

\* BaseSpec.retrieve_values(wf): the spec as the call leaves it
retrieve_values(spec, wf) ==
    LET r == RetrieveLoop(spec, wf, spec.fields, <<>>, FALSE)
    IN  [spec |-> IF r.err # "none" THEN spec ELSE SetAll(spec, r.temp_values), err |-> r.err]

\* ShellSpec.retrieve_values(wf); path_to_string is applied to the variable
\* left over from the first loop and its result is not used
ShellSpec_retrieve_values(spec, wf) ==
    LET r == RetrieveLoop(spec, wf, spec.fields, <<>>, TRUE)
    IN  [spec |-> IF r.err # "none" THEN spec ELSE SetAll(spec, r.temp_values), err |-> r.err]

\* =================================================================== state
\* g: the graph object; last: the last call made on it (operation, arguments,
\* exception, returned value); born: how many node names have been handed to
\* the graph so far; steps: mutating calls made since construction
VARIABLES g, last, born, steps

\* task: the node that owns the promised fields (its open splitters and its
\* combiners); lfs: the promises (LazyField objects) made so far, oldest
\* first; inputs: an input spec (its fields, their metadata and values);
\* out: the last call made on a promise or on a spec, and its outcome
VARIABLES task, lfs, inputs, out

\* twin: the copy made of the graph (copy()): whether it was made, its
\* containers, the containers it holds in common with the graph, and which of
\* the two graphs the last call was made on
VARIABLES twin

graphvars == <<g, last, born, steps>>

lazyvars == <<task, lfs, inputs, out>>

vars == <<g, last, born, steps, task, lfs, inputs, out, twin>>

\* no node, no promise, no spec, no call
NoTask == [name |-> "", splits |-> {}, combines |-> <<>>,
           input_types |-> <<>>, output_types |-> <<>>]

NoInputs == <<>>

NoCall == [op |-> "none"]

Call(op, nodes, edges, check_ready, r) ==
    [op |-> op, nodes |-> nodes, edges |-> edges, check |-> check_ready,
     err |-> r.err, ret |-> r.ret]

\* Names in the order in which nodes come into being: names are unique and
\* stable for the lifetime of the graph, so a new node takes the next unused
\* name and the constructor's node list is a prefix of this order
Order == <<"A", "B", "C", "D">>

Prefix(k) == SubSeq(Order, 1, k)

\* node lists handed to the constructor: the first k names, or a list that
\* repeats a node
NodeLists == {Prefix(k) : k \in 0..Len(Order)} \cup {<<"A", "A">>, <<"A", "B", "A">>}

Pairs == Names \X Names

SeqsUpTo(S, n) == UNION {[1..k -> S] : k \in 0..n}

\* edge lists handed to the constructor in Spec: the chain A->B->C->D, the
\* chord B->D and the back edge C->A, which puts the sorted order against the
\* order of the node list and closes the cycle A->B->C->A
ChainPairs == {<<"A", "B">>, <<"B", "C">>, <<"C", "D">>, <<"B", "D">>, <<"C", "A">>}

\* (each edge once: add_edges is what repeats an edge)
EdgeLists == {s \in SeqsUpTo(ChainPairs, MaxEdges) : Cardinality(Range(s)) = Len(s)}

\* edge lists handed to the constructor in SpecRemove: an edge may repeat
RepeatingEdgeLists == SeqsUpTo(ChainPairs, MaxEdges)

\* edge lists handed to the constructor in SpecSort: any pairs of names
AnyEdgeLists == SeqsUpTo(Pairs, MaxEdges)

Init ==
    /\ g = EmptyGraph
    /\ last = [op |-> "init", nodes |-> <<>>, edges |-> <<>>, check |-> TRUE,
               err |-> "none", ret |-> {}]
    /\ born = 0
    /\ steps = 0
    /\ task = NoTask
    /\ lfs = <<>>
    /\ inputs = NoInputs
    /\ out = NoCall
    /\ twin = NoTwin

\* a call is made on a graph whose last call returned: an exception ends the
\* run with the graph as the failed call left it, and so does a call that
\* never returns
Built == last.op # "init" /\ last.err = "none"

Live == Built /\ steps < MaxOps

Construction(nodes, edges) ==
    LET r == Construct(g, nodes, edges)
    IN  /\ g' = r.g
        /\ last' = Call("Construct", nodes, edges, TRUE, r)
        /\ born' = IF r.err = "none" THEN Len(nodes) ELSE 0
        /\ steps' = 0
        /\ UNCHANGED <<lazyvars, twin>>

DoConstruct ==
    /\ last.op = "init"
    /\ \E nodes \in NodeLists, edges \in EdgeLists : Construction(nodes, edges)

DoConstructRepeating ==
    /\ last.op = "init"
    /\ \E nodes \in NodeLists, edges \in RepeatingEdgeLists : Construction(nodes, edges)

DoConstructAny ==
    /\ last.op = "init"
    /\ \E nodes \in NodeLists, edges \in AnyEdgeLists : Construction(nodes, edges)

DoSort ==
    /\ Built
    /\ LET r == sorting(g, <<>>)
       IN  /\ g' = r.g
           /\ last' = Call("Sort", <<>>, <<>>, TRUE, r)
    /\ UNCHANGED <<born, steps>>
    /\ UNCHANGED <<lazyvars, twin>>

\* new nodes: the next unused name(s), or a node that is active already
NewNodeLists ==
    {SubSeq(Order, born + 1, born + k) : k \in 1..Min(2, Len(Order) - born)}
        \cup {<<n>> : n \in Range(g.nodes)}

DoAddNodes ==
    /\ Live
    /\ \E new_nodes \in NewNodeLists :
         LET r == add_nodes(g, new_nodes)
         IN  /\ g' = r.g
             /\ last' = Call("AddNodes", new_nodes, <<>>, TRUE, r)
             /\ born' = IF r.err = "ConfigurationError" THEN born
                        ELSE born + Len(new_nodes)
    /\ steps' = steps + 1
    /\ UNCHANGED <<lazyvars, twin>>

DoAddEdges ==
    /\ Live
    /\ \E e \in Pairs :
         LET r == add_edges(g, <<e>>)
         IN  /\ g' = r.g
             /\ last' = Call("AddEdges", <<>>, <<e>>, TRUE, r)
    /\ steps' = steps + 1
    /\ UNCHANGED born
    /\ UNCHANGED <<lazyvars, twin>>

\* the nodes a caller can name: those the graph has ever held
Born == Range(Prefix(born))

\* remove_nodes is called with one node or with a list of two; the code calls
\* it with check_ready=False on single nodes only (remove_successors_nodes)
TargetLists(check_ready) ==
    {<<n>> : n \in Born} \cup (IF check_ready THEN {<<n, m>> : n, m \in Born} ELSE {})

DoRemoveNodes ==
    /\ Live
    /\ \E check_ready \in BOOLEAN : \E nodes \in TargetLists(check_ready) :
         LET r == remove_nodes(g, nodes, check_ready)
         IN  /\ g' = r.g
             /\ last' = Call("RemoveNodes", nodes, <<>>, check_ready, r)
    /\ steps' = steps + 1
    /\ UNCHANGED born
    /\ UNCHANGED <<lazyvars, twin>>

DoRemoveNodesConnections ==
    /\ Live
    /\ \E n \in Born :
         LET r == remove_nodes_connections(g, <<n>>)
         IN  /\ g' = r.g
             /\ last' = Call("RemoveNodesConnections", <<n>>, <<>>, TRUE, r)
    /\ steps' = steps + 1
    /\ UNCHANGED born
    /\ UNCHANGED <<lazyvars, twin>>

DoRemovePreviousConnections ==
    /\ Live
    /\ \E n \in Born :
         LET r == remove_previous_connections(g, <<n>>)
         IN  /\ g' = r.g
             /\ last' = Call("RemovePreviousConnections", <<n>>, <<>>, TRUE, r)
    /\ steps' = steps + 1
    /\ UNCHANGED born
    /\ UNCHANGED <<lazyvars, twin>>

DoRemoveSuccessorsNodes ==
    /\ Live
    /\ \E n \in Born :
         LET r == remove_successors_nodes(g, n)
         IN  /\ g' = r.g
             /\ last' = Call("RemoveSuccessorsNodes", <<n>>, <<>>, TRUE, r)
    /\ steps' = steps + 1
    /\ UNCHANGED born
    /\ UNCHANGED <<lazyvars, twin>>

\* the graph under every operation
Next ==
    \/ DoConstruct
    \/ DoSort
    \/ DoAddNodes
    \/ DoAddEdges
    \/ DoRemoveNodes
    \/ DoRemoveNodesConnections
    \/ DoRemovePreviousConnections
    \/ DoRemoveSuccessorsNodes

Spec == Init /\ [][Next]_vars

\* construction from any edge list, then sorting
NextSort ==
    \/ DoConstructAny
    \/ DoSort

SpecSort == Init /\ [][NextSort]_vars

\* construction, sorting and growth: no node is ever removed
NextBuild ==
    \/ DoConstruct
    \/ DoSort
    \/ DoAddNodes
    \/ DoAddEdges

SpecBuild == Init /\ [][NextBuild]_vars

\* construction, sorting and removal: the graph never grows
NextRemove ==
    \/ DoConstructRepeating
    \/ DoSort
    \/ DoRemoveNodes
    \/ DoRemoveNodesConnections
    \/ DoRemovePreviousConnections
    \/ DoRemoveSuccessorsNodes

SpecRemove == Init /\ [][NextRemove]_vars

\* seed orderings handed to sorting: the permutations of the active nodes
Seeds(nodes) == {t \in [1..Len(nodes) -> Range(nodes)] : Range(t) = Range(nodes)}

\* sorting(presorted=seed)
DoSortSeeded ==
    /\ Built
    /\ \E seed \in Seeds(g.nodes) :
         LET r == sorting(g, seed)
         IN  /\ g' = r.g
             /\ last' = Call("SortSeeded", seed, <<>>, TRUE, r)
    /\ UNCHANGED <<born, steps>>
    /\ UNCHANGED <<lazyvars, twin>>

\* construction, first phase of removal, sorting with and without a seed
NextSeed ==
    \/ DoConstruct
    \/ DoRemoveNodes
    \/ DoSort
    \/ DoSortSeeded

SpecSeed == Init /\ [][NextSeed]_vars

\* calculate_max_paths()
DoCalculateMaxPaths ==
    /\ Built
    /\ last.op # "CalculateMaxPaths"
    /\ LET r == calculate_max_paths(g)
       IN  /\ g' = r.g
           /\ last' = Call("CalculateMaxPaths", <<>>, <<>>, TRUE, r)
    /\ UNCHANGED <<born, steps>>
    /\ UNCHANGED <<lazyvars, twin>>

\* construction from any edge list, then the maximum paths
NextPaths ==
    \/ DoConstructAny
    \/ DoCalculateMaxPaths

SpecPaths == Init /\ [][NextPaths]_vars

\* remove_nodes(n, check_ready) on one node, in a run of removals
DoRetire ==
    /\ Built
    /\ steps < MaxRemovals
    /\ \E check_ready \in BOOLEAN : \E n \in Born :
         LET r == remove_nodes(g, <<n>>, check_ready)
         IN  /\ g' = r.g
             /\ last' = Call("RemoveNodes", <<n>>, <<>>, check_ready, r)
    /\ steps' = steps + 1
    /\ UNCHANGED born
    /\ UNCHANGED <<lazyvars, twin>>

\* remove_previous_connections(n), in a run of removals; the call is recorded
\* with the edges into n that it found in the edge list
DoDetachPrevious ==
    /\ Built
    /\ steps < MaxRemovals
    /\ \E n \in Born :
         LET r == remove_previous_connections(g, <<n>>)
         IN  /\ g' = r.g
             /\ last' = Call("RemovePreviousConnections", <<n>>,
                             SelectSeq(g.edges, LAMBDA e : e[2] = n), TRUE, r)
    /\ steps' = steps + 1
    /\ UNCHANGED born
    /\ UNCHANGED <<lazyvars, twin>>

\* construction and sorting, then nodes are retired and cancelled one after
\* the other
NextDetach ==
    \/ DoConstruct
    \/ DoSort
    \/ DoRetire
    \/ DoDetachPrevious

SpecDetach == Init /\ [][NextDetach]_vars

\* ----------------------------------------------------- a graph and its copy
\* edge lists handed to the constructor of a graph that is copied later: the
\* tree A->B, B->C, B->D or a part of it (add_edges adds the other edges)
Tree == <<<<"A", "B">>, <<"B", "C">>, <<"B", "D">>>>

TreeEdgeLists == {s \in EdgeLists : Len(s) <= Len(Tree) /\ \A i \in 1..Len(s) : s[i] = Tree[i]}

DoConstructTree ==
    /\ last.op = "init"
    /\ \E nodes \in NodeLists, edges \in TreeEdgeLists : Construction(nodes, edges)

\* a tree that grows while nodes of it are retired and detached
NextGrow ==
    \/ DoConstructTree
    \/ DoSort
    \/ DoAddNodes
    \/ DoAddEdges
    \/ DoRemoveNodes
    \/ DoRemoveNodesConnections

SpecGrow == Init /\ [][NextGrow]_vars

\* new_graph = graph.copy()
DoCopy ==
    /\ Built
    /\ ~twin.made
    /\ LET c == copy(g)
       IN  twin' = [made |-> TRUE, g |-> c.g, shared |-> c.shared, on |-> "none"]
    /\ last' = Call("Copy", <<>>, <<>>, TRUE, Ok(g))
    /\ UNCHANGED <<g, born, steps>>
    /\ UNCHANGED lazyvars

\* the graphs a call can be made on
Sides == IF twin.made THEN {"original", "copy"} ELSE {"original"}

GraphOn(side) == IF side = "original" THEN g ELSE twin.g

OtherOn(side) == IF side = "original" THEN twin.g ELSE g

\* the two graphs after a call on the graph of one side: the called graph is
\* as the call left it (r.g), the other one is as it is seen after the call
Outcome(side, op, nodes, edges, check_ready, r, seen, shared) ==
    /\ g' = IF side = "original" THEN r.g ELSE seen
    /\ twin' = [made |-> twin.made, g |-> IF side = "original" THEN seen ELSE r.g,
                shared |-> shared, on |-> side]
    /\ last' = Call(op, nodes, edges, check_ready, r)
    /\ born' = IF op = "AddNodes" /\ r.err # "ConfigurationError"
               THEN born + Len(nodes) ELSE born
    /\ UNCHANGED lazyvars

\* op was called on the graph of one side with outcome r; the graph of the
\* other side sees what the call did in place to the containers the two have
\* in common
CallOn(side, op, nodes, edges, check_ready, r) ==
    IF twin.made
    THEN Outcome(side, op, nodes, edges, check_ready, r,
                 Seen(OtherOn(side), twin.shared, op, GraphOn(side), nodes, check_ready, r),
                 StillShared(twin.shared, op, GraphOn(side), nodes, check_ready, r))
    ELSE Outcome(side, op, nodes, edges, check_ready, r, twin.g, twin.shared)

DoSortOn ==
    /\ Built
    /\ \E side \in Sides :
         CallOn(side, "Sort", <<>>, <<>>, TRUE, sorting(GraphOn(side), <<>>))
    /\ UNCHANGED steps

\* a new node, or a node that is active in the graph already
DoAddNodesOn ==
    /\ Live
    /\ \E side \in Sides :
         \E new_nodes \in {SubSeq(Order, born + 1, born + k) : k \in 1..Min(1, Len(Order) - born)}
                             \cup {<<n>> : n \in Range(GraphOn(side).nodes)} :
            CallOn(side, "AddNodes", new_nodes, <<>>, TRUE, add_nodes(GraphOn(side), new_nodes))
    /\ steps' = steps + 1

DoAddEdgesOn ==
    /\ Live
    /\ \E side \in Sides : \E e \in ChainPairs :
         CallOn(side, "AddEdges", <<>>, <<e>>, TRUE, add_edges(GraphOn(side), <<e>>))
    /\ steps' = steps + 1

DoRemoveNodesOn ==
    /\ Live
    /\ \E side \in Sides : \E check_ready \in BOOLEAN : \E n \in Born :
         CallOn(side, "RemoveNodes", <<n>>, <<>>, check_ready,
                remove_nodes(GraphOn(side), <<n>>, check_ready))
    /\ steps' = steps + 1

DoRemoveNodesConnectionsOn ==
    /\ Live
    /\ \E side \in Sides : \E n \in Born :
         CallOn(side, "RemoveNodesConnections", <<n>>, <<>>, TRUE,
                remove_nodes_connections(GraphOn(side), <<n>>))
    /\ steps' = steps + 1

\* a graph is built and changed, copied at some point, and from then on the
\* calls go to the graph or to its copy
NextCopy ==
    \/ DoConstructTree
    \/ DoCopy
    \/ DoSortOn
    \/ DoAddNodesOn
    \/ DoAddEdgesOn
    \/ DoRemoveNodesOn
    \/ DoRemoveNodesConnectionsOn

SpecCopy == Init /\ [][NextCopy]_vars

\* ------------------------------------------------------ the scheduler's drain
\* the scheduler takes the first node of graph.sorted_nodes (the property
\* sorts when nothing is cached) and retires it with check_ready
DoDrainRetire ==
    /\ Built
    /\ g.node_wip = <<>>
    /\ g.nodes # <<>>
    /\ \E h \in {sorted_nodes(g)} :
         IF h.err # "none" \/ h.g.sorted_nodes = <<>>
         THEN /\ g' = h.g
              /\ last' = Call("RemoveNodes", <<>>, <<>>, TRUE,
                              IF h.err # "none" THEN h ELSE Raise(h.g, "IndexError"))
         ELSE \E r \in {remove_nodes(h.g, <<h.g.sorted_nodes[1]>>, TRUE)} :
                /\ g' = r.g
                /\ last' = Call("RemoveNodes", <<h.g.sorted_nodes[1]>>, <<>>, TRUE, r)
    /\ steps' = steps + 1
    /\ UNCHANGED born
    /\ UNCHANGED <<lazyvars, twin>>

\* and, the node's body done, detaches the node it retired
DoDrainDetach ==
    /\ Built
    /\ g.node_wip # <<>>
    /\ \E r \in {remove_nodes_connections(g, <<g.node_wip[1]>>)} :
         /\ g' = r.g
         /\ last' = Call("RemoveNodesConnections", <<g.node_wip[1]>>, <<>>, TRUE, r)
    /\ steps' = steps + 1
    /\ UNCHANGED born
    /\ UNCHANGED <<lazyvars, twin>>

\* a graph is built from any edge list, edges repeated or not, and drained
NextDrain ==
    \/ DoConstructRepeating
    \/ DoDrainRetire
    \/ DoDrainDetach

\* the scheduler goes on for as long as there is a node to retire or to detach
SpecDrain ==
    /\ Init
    /\ [][NextDrain]_vars
    /\ WF_vars(DoDrainRetire)
    /\ WF_vars(DoDrainDetach)

\* ------------------------------------------------ promises: state, actions
\* the field names that can be split over, the splitters a node can be given
\* and the declared types of a field
SplitNames == {"x", "y"}

Splitters == {<<"x">>, <<"y">>, <<"x", "y">>, <<"y", "z">>}

FieldTypes == {AnyType, <<"int">>, <<"List", "int">>, <<"List", "List", "int">>}

\* the types a promise can be cast to
CastTypes == FieldTypes \cup {<<"Split", "int">>, <<"Split", "List", "int">>, <<"Split", "Split", "int">>}

\* the values of a field: atoms, lists of atoms, lists of lists of atoms
FlatValues == {Atom(1)} \cup {ListOf([i \in 1..k |-> Atom(i)]) : k \in 0..MaxReplicas}

FieldValues ==
    FlatValues \cup {ListOf(s) : s \in SeqsUpTo(FlatValues \ {ListOf(<<>>)}, 2)}

\* what node.result() returns: a Result, or Results in lists nested up to two
\* deep, one Result per replica; a Result has errored, or holds an atom or a list
Results == {Result(TRUE, NoValue), Result(FALSE, Atom(1)), Result(FALSE, ListOf(<<Atom(1), Atom(2)>>))}

ResultLists == {ResultList(s) : s \in SeqsUpTo(Results, MaxReplicas)}

\* (the replicas of a combined node come in at most two groups)
NodeResults ==
    Results \cup ResultLists
        \cup {ResultList(s) : s \in SeqsUpTo(Results \cup ResultLists, 2)}

NoWorkflow == [value |-> NoValue, pre_split |-> FALSE, result |-> ResultList(<<>>)]

\* the workflows a promise is resolved against: the part the promise's
\* direction does not read is left empty
Workflows(attr_type) ==
    IF attr_type = "input"
    THEN {[NoWorkflow EXCEPT !.value = v, !.pre_split = p] : v \in FieldValues, p \in BOOLEAN}
    ELSE {[NoWorkflow EXCEPT !.result = r] : r \in NodeResults}

\* a call on the node, on its lzin/lzout or on promise number src, its
\* argument, the exception, the number of the promise it returned and the
\* value it returned
LazyCall(op, src, arg, err, new, val, wf) ==
    [op |-> op, src |-> src, arg |-> arg, err |-> err, new |-> new, val |-> val, wf |-> wf]

\* the node "a" with a declared input x and a declared output out, as the
\* workflow builder made it: not split, split over x and over y, or split
\* over the composite splitters (x, y) and (y, z)
InitLazy ==
    /\ g = EmptyGraph
    /\ last = [op |-> "init", nodes |-> <<>>, edges |-> <<>>, check |-> TRUE,
               err |-> "none", ret |-> {}]
    /\ born = 0
    /\ steps = 0
    /\ \E tx, tout \in FieldTypes, splits \in {{}, {<<"x">>, <<"y">>}, {<<"x", "y">>, <<"y", "z">>}} :
         task = [name |-> "a", splits |-> splits, combines |-> <<>>,
                 input_types |-> [x |-> tx], output_types |-> [out |-> tout]]
    /\ lfs = <<>>
    /\ inputs = NoInputs
    /\ out = NoCall
    /\ twin = NoTwin

LiveLazy == steps < MaxLazyOps

\* TaskBase.split(splitter): the splitter joins the node's open splitters
DoTaskSplit ==
    /\ LiveLazy
    /\ \E s \in Splitters \ task.splits :
         /\ task' = [task EXCEPT !.splits = @ \cup {s}]
         /\ out' = LazyCall("task.split", 0, s, "none", 0, NoValue, NoWorkflow)
    /\ steps' = steps + 1
    /\ UNCHANGED <<g, twin, last, born, lfs, inputs>>

\* TaskBase.combine(combiner): the name joins the node's combiners
DoTaskCombine ==
    /\ LiveLazy
    /\ \E c \in SplitNames \ Range(task.combines) :
         /\ task' = [task EXCEPT !.combines = Append(@, c)]
         /\ out' = LazyCall("task.combine", 0, c, "none", 0, NoValue, NoWorkflow)
    /\ steps' = steps + 1
    /\ UNCHANGED <<g, twin, last, born, lfs, inputs>>

\* node.lzin.<name> and node.lzout.<name>
DoLazyGetattr ==
    /\ LiveLazy
    /\ Len(lfs) < MaxPromises
    /\ \E attr_type \in {"input", "output"}, name \in {"x", "out"} :
         \E r \in LazyGetattr(task, attr_type,
                              IF attr_type = "input" THEN task.input_types
                              ELSE task.output_types, name) :
            /\ task' = r.task
            /\ lfs' = IF r.err = "none" THEN Append(lfs, r.lf) ELSE lfs
            /\ out' = LazyCall("getattr", 0, name, r.err,
                               IF r.err = "none" THEN Len(lfs) + 1 ELSE 0, NoValue, NoWorkflow)
    /\ steps' = steps + 1
    /\ UNCHANGED <<g, twin, last, born, inputs>>

DoCast ==
    /\ LiveLazy
    /\ Len(lfs) < MaxPromises
    /\ \E i \in 1..Len(lfs), new_type \in CastTypes :
         LET r == cast(lfs[i], new_type)
         IN  /\ lfs' = Append(lfs, r.lf)
             /\ out' = LazyCall("cast", i, new_type, r.err, Len(lfs) + 1, NoValue, NoWorkflow)
    /\ steps' = steps + 1
    /\ UNCHANGED <<g, twin, last, born, task, inputs>>

\* the splitter arguments: one splitter, a list of two, or None
SplitterArgs ==
    {[is_none |-> FALSE, items |-> {s}] : s \in Splitters}
        \cup {[is_none |-> FALSE, items |-> {<<"x">>, <<"y">>}], [is_none |-> TRUE, items |-> {}]}

DoSplit ==
    /\ LiveLazy
    /\ Len(lfs) < MaxPromises
    /\ \E i \in 1..Len(lfs), splitter \in SplitterArgs :
         LET r == split(lfs[i], task, splitter)
         IN  /\ lfs' = IF r.err = "none" THEN Append(lfs, r.lf) ELSE lfs
             /\ out' = LazyCall("split", i, splitter, r.err,
                                IF r.err = "none" THEN Len(lfs) + 1 ELSE 0, NoValue, NoWorkflow)
    /\ steps' = steps + 1
    /\ UNCHANGED <<g, twin, last, born, task, inputs>>

\* promise.get_value(wf); the call reads the promise and the workflow and
\* changes neither, so that one call in a run stands for any number of them
DoGetValue ==
    /\ LiveLazy
    /\ out.op # "get_value"
    /\ \E i \in 1..Len(lfs) : \E wf \in Workflows(lfs[i].attr_type) :
         LET r == get_value(lfs[i], wf)
         IN  out' = LazyCall("get_value", i, "", r.err, 0, r.val, wf)
    /\ steps' = steps + 1
    /\ UNCHANGED <<g, twin, last, born, task, lfs, inputs>>

\* a node, the promises derived from it and the calls made on them
NextLazy ==
    \/ DoTaskSplit
    \/ DoTaskCombine
    \/ DoLazyGetattr
    \/ DoCast
    \/ DoSplit

SpecLazy == InitLazy /\ [][NextLazy]_vars

\* a promise of any direction and any declared type (any type is reached by a
\* cast), and of any set of open splitters
InitResolve ==
    /\ g = EmptyGraph
    /\ last = [op |-> "init", nodes |-> <<>>, edges |-> <<>>, check |-> TRUE,
               err |-> "none", ret |-> {}]
    /\ born = 0
    /\ steps = 0
    /\ task = [name |-> "a", splits |-> {}, combines |-> <<>>,
               input_types |-> [x |-> AnyType], output_types |-> [out |-> AnyType]]
    /\ \E attr_type \in {"input", "output"}, type \in CastTypes, splits \in SUBSET {<<"x">>, <<"y">>} :
         lfs = <<LazyField("a", IF attr_type = "input" THEN "x" ELSE "out",
                           attr_type, type, FALSE, splits)>>
    /\ inputs = NoInputs
    /\ out = NoCall
    /\ twin = NoTwin

\* the resolution of a promise against any workflow
NextResolve == DoGetValue

SpecResolve == InitResolve /\ [][NextResolve]_vars

\* --------------------------------------------- input specs: state, actions
Meta(mandatory, xor, requires, output_file_template, container_path) ==
    [mandatory |-> mandatory, xor |-> xor, requires |-> requires,
     output_file_template |-> output_file_template, container_path |-> container_path]

Plain == Meta(FALSE, {}, {}, FALSE, FALSE)

\* the fields of the specs that are hashed: two plain fields, a field with an
\* output_file_template, a field with a container_path, a bookkeeping field,
\* and for some specs a further plain field z and/or the checksums of the graph
\* of a workflow
HashFields == <<"x", "y", "out_file", "cpath", "bindings">>

HashMeta ==
    [f \in Range(HashFields) \cup {"z", "_graph_checksums"} |->
        IF f = "out_file" THEN Meta(FALSE, {}, {}, TRUE, FALSE)
        ELSE IF f = "cpath" THEN Meta(FALSE, {}, {}, FALSE, TRUE)
        ELSE Plain]

HashValues(f) ==
    IF f = "x" THEN {NOTHING, "u", "v"}
    ELSE IF f = "_graph_checksums" THEN {"u", "v"}
    ELSE {NOTHING, "u"}

HashSpecsOf(fields) ==
    {[fields |-> fields, meta |-> [f \in Range(fields) |-> HashMeta[f]], values |-> values] :
        values \in {vs \in [Range(fields) -> {NOTHING, "u", "v"}] :
                       \A f \in Range(fields) : vs[f] \in HashValues(f)}}

HashSpecs ==
    UNION {HashSpecsOf(HashFields \o extra) :
              extra \in {<<>>, <<"z">>, <<"_graph_checksums">>, <<"z", "_graph_checksums">>}}

\* a spec of any values
InitHash ==
    /\ g = EmptyGraph
    /\ last = [op |-> "init", nodes |-> <<>>, edges |-> <<>>, check |-> TRUE,
               err |-> "none", ret |-> {}]
    /\ born = 0
    /\ steps = 0
    /\ task = NoTask
    /\ lfs = <<>>
    /\ inputs \in HashSpecs
    /\ out = NoCall
    /\ twin = NoTwin

\* a call on a spec, its argument and its outcome
SpecCall(op, arg, err, val) == [op |-> op, arg |-> arg, err |-> err, val |-> val]

\* spec.hash
DoHash ==
    /\ out' = SpecCall("hash", "", "none", hash(inputs))
    /\ UNCHANGED <<g, twin, last, born, steps, task, lfs, inputs>>

\* spec.<field> = value
DoSetAttr ==
    /\ \E f \in Range(inputs.fields) : \E v \in HashValues(f) \ {inputs.values[f]} :
         /\ inputs' = [inputs EXCEPT !.values[f] = v]
         /\ out' = SpecCall("setattr", f, "none", v)
    /\ UNCHANGED <<g, twin, last, born, steps, task, lfs>>

NextHash ==
    \/ DoHash
    \/ DoSetAttr

SpecHash == InitHash /\ [][NextHash]_vars

\* the specs that are checked: three fields; a has any metadata, b and c are
\* mandatory or not, alternatives of all three or of none, and require a or
\* nothing
CheckedFields == <<"a", "b", "c">>

CheckedMeta ==
    {m \in [Range(CheckedFields) -> {Meta(mandatory, xor, requires, FALSE, FALSE) :
                                        mandatory \in BOOLEAN,
                                        xor \in SUBSET Range(CheckedFields),
                                        requires \in SUBSET Range(CheckedFields)}] :
        \A f \in {"b", "c"} : /\ m[f].xor \in {{}, Range(CheckedFields)}
                               /\ m[f].requires \in {{}, {"a"}}}

InitCheck ==
    /\ g = EmptyGraph
    /\ last = [op |-> "init", nodes |-> <<>>, edges |-> <<>>, check |-> TRUE,
               err |-> "none", ret |-> {}]
    /\ born = 0
    /\ steps = 0
    /\ task = NoTask
    /\ lfs = <<>>
    /\ \E meta \in CheckedMeta, values \in [Range(CheckedFields) -> {NOTHING, "u"}] :
         inputs = [fields |-> CheckedFields, meta |-> meta, values |-> values]
    /\ out = NoCall
    /\ twin = NoTwin

\* spec.check_fields_input_spec()
DoCheckFields ==
    /\ out.op # "check"
    /\ out' = SpecCall("check", "", check_fields_input_spec(inputs), "")
    /\ UNCHANGED <<g, twin, last, born, steps, task, lfs, inputs>>

NextCheck == DoCheckFields

SpecCheck == InitCheck /\ [][NextCheck]_vars

\* ------------------------------------------------- specs that hold promises
\* a spec of three fields, the last one with an output_file_template; a field
\* is unset, holds a value, or holds a promise of the workflow's input x or
\* of the output out of node a
RetrieveFields == <<"x", "y", "out_file">>

RetrievePromises ==
    {LazyField("wf", "x", "input", type, FALSE, {}) : type \in {<<"int">>, <<"Split", "int">>}}
        \cup {LazyField("a", "out", "output", type, FALSE, {}) :
                 type \in {<<"int">>, <<"List", "int">>}}

RetrieveValues == {Held(NoValue), Held(Atom(1))} \cup {Promised(lf) : lf \in RetrievePromises}

\* the workflows the promises are resolved against: the input x is an atom or
\* a list, node a has one Result or a list of one, errored or not
RetrieveWorkflows ==
    {[value |-> v, pre_split |-> FALSE, result |-> r] :
        v \in {Atom(1), ListOf(<<Atom(1), Atom(2)>>)},
        r \in {Result(FALSE, Atom(1)), Result(TRUE, NoValue),
               ResultList(<<Result(FALSE, Atom(1))>>), ResultList(<<Result(TRUE, NoValue)>>)}}

InitRetrieve ==
    /\ g = EmptyGraph
    /\ last = [op |-> "init", nodes |-> <<>>, edges |-> <<>>, check |-> TRUE,
               err |-> "none", ret |-> {}]
    /\ born = 0
    /\ steps = 0
    /\ task = NoTask
    /\ lfs = <<>>
    /\ \E shell \in BOOLEAN, values \in [Range(RetrieveFields) -> RetrieveValues] :
         inputs = [shell  |-> shell,
                   fields |-> RetrieveFields,
                   meta   |-> [f \in Range(RetrieveFields) |->
                                  IF f = "out_file" THEN Meta(FALSE, {}, {}, TRUE, FALSE)
                                  ELSE Plain],
                   values |-> values]
    /\ out = NoCall
    /\ twin = NoTwin

\* spec.retrieve_values(wf) on a BaseSpec
DoRetrieveValues ==
    /\ steps < MaxOps
    /\ ~inputs.shell
    /\ \E wf \in RetrieveWorkflows :
         \E r \in {retrieve_values(inputs, wf)} :
            /\ inputs' = r.spec
            /\ out' = SpecCall("retrieve_values", wf, r.err, "")
    /\ steps' = steps + 1
    /\ UNCHANGED <<g, twin, last, born, task, lfs>>

\* spec.retrieve_values(wf) on a ShellSpec
DoShellRetrieveValues ==
    /\ steps < MaxOps
    /\ inputs.shell
    /\ \E wf \in RetrieveWorkflows :
         \E r \in {ShellSpec_retrieve_values(inputs, wf)} :
            /\ inputs' = r.spec
            /\ out' = SpecCall("retrieve_values", wf, r.err, "")
    /\ steps' = steps + 1
    /\ UNCHANGED <<g, twin, last, born, task, lfs>>

NextRetrieve ==
    \/ DoRetrieveValues
    \/ DoShellRetrieveValues

SpecRetrieve == InitRetrieve /\ [][NextRetrieve]_vars

\* ============================================================== properties
\* the nodes reachable from n by one edge or more
RECURSIVE Closure(_, _)
Closure(E, S) ==
    LET T == S \cup {e[2] : e \in {d \in E : d[1] \in S}}
    IN  IF T = S THEN S ELSE Closure(E, T)

Desc(E, n) == Closure(E, {e[2] : e \in {d \in E : d[1] = n}})

Acyclic(E) == \A n \in Names : n \notin Desc(E, n)

Pos(s, x) == CHOOSE i \in 1..Len(s) : s[i] = x

IsPermutation(s, t) ==
    Len(s) = Len(t) /\ \A x \in Range(s) \cup Range(t) : Count(s, x) = Count(t, x)

\* every edge between two nodes of s goes from an earlier to a later position
Topological(s, E) ==
    \A e \in E : (e[1] \in Range(s) /\ e[2] \in Range(s)) => Pos(s, e[1]) < Pos(s, e[2])

\* C1: on an acyclic graph as constructed from any node list and any edge list
\* over it, Sort returns, and the sorted list is a permutation of the nodes in
\* which the producer of every edge stands before its consumer
C1_SortIsTopological ==
    (last.op = "Sort" /\ Acyclic(Range(g.edges))) =>
        /\ last.err = "none"
        /\ g.sorted_set
        /\ IsPermutation(g.sorted_nodes, g.nodes)
        /\ \A e \in Range(g.edges) :
             /\ e[1] \in Range(g.sorted_nodes) /\ e[2] \in Range(g.sorted_nodes)
             /\ Pos(g.sorted_nodes, e[1]) < Pos(g.sorted_nodes, e[2])

\* a sort that had to reorder: the sorted list differs from the node list
C1_Witness ==
    /\ last.op = "Sort" /\ last.err = "none"
    /\ Acyclic(Range(g.edges))
    /\ Cardinality(Range(g.edges)) = 3
    /\ g.sorted_nodes # g.nodes

\* C2: on a graph whose edges hold a cycle (a self-loop included), Sort ends
\* with CycleError
C2_CycleError ==
    (last.op = "Sort" /\ ~Acyclic(Range(g.edges))) => last.err = "CycleError"

\* C3: RemoveNodes(n, checkReady=true) on a node with predecessors fails with
\* NotReadyError, and RemoveNodes(n, checkReady=false) succeeds whatever the
\* state of the graph (stated here for the active nodes n only)
C3_RemoveNodesCheckReady ==
    [][(/\ last'.op = "RemoveNodes"
        /\ Len(last'.nodes) = 1
        /\ last'.nodes[1] \in Range(g.nodes)
        /\ last'.nodes[1] \in DOMAIN g.predecessors) =>
            /\ (last'.check /\ g.predecessors[last'.nodes[1]] # <<>>)
                  => last'.err = "NotReadyError"
            /\ ~last'.check => last'.err = "none"]_vars

\* the ancestors of n
Anc(E, n) == {m \in Names : n \in Desc(E, m)}

\* C4: RemoveSuccessorsNodes(n) returns, its value is the set of the transitive
\* successors of n that were active, none of them is active afterwards and the
\* ancestors of n stay active (stated here for the in-flight nodes n only)
C4_RemoveSuccessorsNodes ==
    [][(/\ last'.op = "RemoveSuccessorsNodes"
        /\ last'.nodes[1] \in Range(g.node_wip)) =>
            LET n     == last'.nodes[1]
                succs == Desc(Range(g.edges), n) \cap Range(g.nodes)
            IN  /\ last'.err = "none"
                /\ last'.ret = succs
                /\ Range(g'.nodes) \cap succs = {}
                /\ (Anc(Range(g.edges), n) \cap Range(g.nodes)) \subseteq Range(g'.nodes)]_vars

\* C5: after RemoveSuccessorsNodes(n) no edge, no key and no entry of the
\* predecessors/successors maps names n or a node that the call removed
C5_NoReferenceToRemoved ==
    (last.op = "RemoveSuccessorsNodes" /\ last.err = "none") =>
        LET gone == {last.nodes[1]} \cup last.ret
        IN  /\ \A e \in Range(g.edges) : e[1] \notin gone /\ e[2] \notin gone
            /\ DOMAIN g.predecessors \cap gone = {}
            /\ DOMAIN g.successors \cap gone = {}
            /\ \A x \in DOMAIN g.predecessors : Range(g.predecessors[x]) \cap gone = {}
            /\ \A x \in DOMAIN g.successors : Range(g.successors[x]) \cap gone = {}

\* no node has been removed since construction
PureBuild == Len(g.nodes) = born /\ g.node_wip = <<>>

\* the graph constructed from scratch from the current nodes and edges, sorted
FromScratch == sorting(Construct(EmptyGraph, g.nodes, g.edges).g, <<>>)

\* C6: AddNodes or AddEdges on a sorted graph that only grew, with an acyclic
\* result, returns and leaves a cached order that is a topological order of the
\* graph, over the same nodes as the order of the graph constructed from
\* scratch, which respects the same edges
C6_IncrementalOrder ==
    (/\ last.op \in {"AddNodes", "AddEdges"}
     /\ last.err # "ConfigurationError"
     /\ PureBuild
     /\ g.sorted_set
     /\ Acyclic(Range(g.edges))) =>
        /\ last.err = "none"
        /\ IsPermutation(g.sorted_nodes, g.nodes)
        /\ Topological(g.sorted_nodes, Range(g.edges))
        /\ FromScratch.err = "none"
        /\ IsPermutation(FromScratch.g.sorted_nodes, g.sorted_nodes)
        /\ Topological(FromScratch.g.sorted_nodes, Range(g.edges))

\* nodes were added, then an edge that the cached order had to be changed for
C6_Witness ==
    /\ last.op = "AddEdges" /\ last.err = "none"
    /\ steps = 2
    /\ PureBuild
    /\ g.sorted_set
    /\ Acyclic(Range(g.edges))
    /\ Len(g.nodes) > 2
    /\ g.sorted_nodes # FromScratch.g.sorted_nodes
    /\ g.sorted_nodes # g.nodes

HasRepeatedNode(nodes) == \E i, j \in 1..Len(nodes) : i < j /\ nodes[i] = nodes[j]

HasUnknownEndpoint(nodes, edges) ==
    \E e \in Range(edges) : e[1] \notin Range(nodes) \/ e[2] \notin Range(nodes)

C8_TwoPhase ==
    [][/\ Range(g'.nodes) \cap Range(g'.node_wip) = {}
       /\ (/\ last'.op = "RemoveNodesConnections"
           /\ last'.nodes[1] \notin Range(g.node_wip)) =>
              /\ last'.err # "none"
              /\ g'.edges = g.edges
              /\ g'.predecessors = g.predecessors
              /\ g'.successors = g.successors]_vars

MapsAgree(gr) ==
    /\ \A e \in Range(gr.edges) :
         /\ e[1] \in DOMAIN gr.successors /\ e[1] \in DOMAIN gr.predecessors
         /\ e[2] \in DOMAIN gr.successors /\ e[2] \in DOMAIN gr.predecessors
    /\ \A u \in DOMAIN gr.successors : \A v \in Names :
         Count(gr.successors[u], v) = Count(gr.edges, <<u, v>>)
    /\ \A v \in DOMAIN gr.predecessors : \A u \in Names :
         Count(gr.predecessors[v], u) = Count(gr.edges, <<u, v>>)

\* C10: after any sequence of calls that all returned, v is in successors[u]
\* and u in predecessors[v] as many times as (u, v) is in the edge list, and
\* the endpoints of every edge are keys of both maps
C10_MapsAgreeWithEdges == last.err = "none" => MapsAgree(g)

\* C11: in every state in which the cached sorted list is present (the state
\* a failed call leaves behind included; a call that never returns leaves no
\* state to observe), it is a permutation of exactly the active nodes and every
\* edge between two active nodes goes from an earlier to a later position
C11_SortedIsTopological ==
    (g.sorted_set /\ last.err # "Hang") =>
        /\ IsPermutation(g.sorted_nodes, g.nodes)
        /\ Topological(g.sorted_nodes, Range(g.edges))

\* some Result of what node.result() returned has errored
RECURSIVE HasErrored(_)
HasErrored(res) ==
    IF res.kind = "list" THEN \E i \in 1..Len(res.items) : HasErrored(res.items[i])
    ELSE res.errored

RECURSIVE NestedTo(_, _)
NestedTo(res, d) ==
    IF res.kind = "list" THEN d > 0 /\ \A i \in 1..Len(res.items) : NestedTo(res.items[i], d - 1)
    ELSE d = 0

SplitLevels(type) == Len(nested_sequence_types(type, TRUE))

\* the declared type of the field a promise is for
DeclaredType(lf) ==
    IF lf.attr_type = "input" THEN task.input_types[lf.field] ELSE task.output_types[lf.field]

\* C13: the type of a promise derived from a node's field has one Split level
\* per splitter of the node that remains open and, inside them, one plain list
\* level per combiner of the node around the declared type of the field: two
\* Split levels with x and y open and nothing combined, one Split level and one
\* list level once y is combined
C13_LevelPerSplitter ==
    (out.op = "getattr" /\ out.err = "none") =>
        LET lf == lfs[out.new]
            n  == Cardinality(task.splits)
            m  == Len(task.combines)
        IN  /\ SplitLevels(lf.type) = n
            /\ Len(lf.type) = n + m + Len(DeclaredType(lf))
            /\ \A i \in 1..m : lf.type[n + i] = "List"
            /\ SubSeq(lf.type, n + m + 1, Len(lf.type)) = DeclaredType(lf)

\* C14: Cast returns a promise with the owner node name, the field name, the
\* direction and the open-splitter set of the original, and leaves the
\* original promise and the owner node unchanged
C14_CastKeepsAllButType ==
    [][(out'.op = "cast" /\ Len(lfs') = Len(lfs) + 1) =>
          LET old == lfs[out'.src]
              new == lfs'[out'.new]
          IN  /\ new.name = old.name
              /\ new.field = old.field
              /\ new.attr_type = old.attr_type
              /\ SplitsOf(new, task') = SplitsOf(old, task)
              /\ SubSeq(lfs', 1, Len(lfs)) = lfs
              /\ task' = task]_vars

\* C15: Split(splitter), with a splitter or a list of splitters, on a promise
\* whose type is a sequence type (or Any) returns a promise with the owner, the
\* field and the direction of the original, whose open splitters are those of
\* the original and the newly named ones and whose type is a Split of the item
\* type with one Split level more than the original; on any other type it fails
C15_SplitAddsLevel ==
    (out.op = "split" /\ ~out.arg.is_none) =>
        LET old == lfs[out.src]
        IN  IF old.type = AnyType \/ get_item_type(old.type) # <<>>
            THEN /\ out.err = "none"
                 /\ LET new == lfs[out.new]
                    IN  /\ new.name = old.name
                        /\ new.field = old.field
                        /\ new.attr_type = old.attr_type
                        /\ SplitsOf(new, task) = SplitsOf(old, task) \cup out.arg.items
                        /\ new.type[1] = "Split"
                        /\ SplitLevels(new.type) = SplitLevels(old.type) + 1
            ELSE out.err # "none"

\* what a promise says of itself: its owner, field, direction and type and the
\* content of its set of open splitters
Promise(lf, t) ==
    [name |-> lf.name, field |-> lf.field, attr_type |-> lf.attr_type, type |-> lf.type,
     splits |-> SplitsOf(lf, t)]

\* C16: a promise, once made, keeps its owner, field, direction, declared type
\* and open-splitter set whatever combiner the owner node is given afterwards
\* and whatever promise is derived from the node, cast or split afterwards
C16_PromiseImmutable ==
    [][out'.op \in {"task.combine", "getattr", "cast", "split"} =>
          \A i \in 1..Len(lfs) : Promise(lfs'[i], task') = Promise(lfs[i], task)]_vars


\* the fields of a spec that are declared, set, not bookkeeping and without an
\* output_file_template, with their values
NonExcluded(spec) ==
    LET kept == {f \in Range(spec.fields) \ HashExcludeNames :
                    /\ spec.values[f] # NOTHING
                    /\ ~spec.meta[f].output_file_template}
    IN  [f \in kept |-> spec.values[f]]

\* the same without the fields that have a container_path
NonExcludedOutsideContainer(spec) ==
    LET kept == {f \in DOMAIN NonExcluded(spec) : ~spec.meta[f].container_path}
    IN  [f \in kept |-> spec.values[f]]

\* the checksums of the graph of a spec, <<>> when it has none
GraphChecksums(spec) ==
    IF "_graph_checksums" \in Range(spec.fields) THEN <<spec.values["_graph_checksums"]>> ELSE <<>>

\* C17 (as stated): the hash of a spec is the hash of exactly the specs that
\* agree with it on the declared, set, non-bookkeeping, non-template fields and
\* on the graph checksums
C17_HashOfNonExcluded ==
    out.op = "hash" =>
        \A other \in HashSpecs :
            hash(other) = out.val <=>
                /\ NonExcluded(other) = NonExcluded(inputs)
                /\ GraphChecksums(other) = GraphChecksums(inputs)

\* C17 (amended): the hash of a spec is the hash of exactly the specs that agree
\* with it on the declared, set, non-bookkeeping, non-template fields that have
\* no container_path, and on the graph checksums; a second call on the
\* unchanged spec gives the same hash
C17_HashOfNonExcludedOutsideContainer ==
    out.op = "hash" =>
        /\ hash(inputs) = out.val
        /\ \A other \in HashSpecs :
              hash(other) = out.val <=>
                  /\ NonExcludedOutsideContainer(other) = NonExcludedOutsideContainer(inputs)
                  /\ GraphChecksums(other) = GraphChecksums(inputs)

\* a hashed spec with every kind of field set, a spec of the same hash that
\* differs from it in a bookkeeping field, a template field, a container_path
\* field and an undeclared field, and a spec that differs in x only
C17_Witness ==
    /\ out.op = "hash"
    /\ \A f \in Range(HashFields) : inputs.values[f] # NOTHING
    /\ \E other \in HashSpecs :
         /\ hash(other) = out.val
         /\ other.fields # inputs.fields
         /\ \A f \in {"out_file", "cpath", "bindings"} : other.values[f] # inputs.values[f]
    /\ \E other \in HashSpecs :
         /\ other.fields = inputs.fields
         /\ \A f \in Range(inputs.fields) : (other.values[f] # inputs.values[f]) <=> f = "x"
         /\ hash(other) # out.val


\* the three rules on a declared field
MandatoryUnset(spec, f) ==
    /\ spec.meta[f].mandatory
    /\ spec.values[f] = NOTHING
    /\ \A n \in spec.meta[f].xor : spec.values[n] = NOTHING

SeveralAlternativesSet(spec, f) ==
    /\ spec.values[f] # NOTHING
    /\ \E n \in spec.meta[f].xor : n # f /\ spec.values[n] # NOTHING

RequiredUnset(spec, f) ==
    /\ spec.values[f] # NOTHING
    /\ \E n \in spec.meta[f].requires : spec.values[n] = NOTHING

Violates(spec) ==
    \E f \in Range(spec.fields) :
        \/ MandatoryUnset(spec, f)
        \/ SeveralAlternativesSet(spec, f)
        \/ RequiredUnset(spec, f)

\* C18: check_fields_input_spec raises exactly when some declared field is
\* mandatory, unset and without a set alternative, or set together with another
\* member of its xor group, or set while a field it requires is unset; it
\* changes no field value
C18_ChecksTheThreeRules ==
    [][out'.op = "check" =>
          /\ (out'.err = "AttributeError") <=> Violates(inputs)
          /\ (out'.err = "none") <=> ~Violates(inputs)
          /\ inputs' = inputs]_vars

\* a checked spec that passes although a mandatory field is unset (its
\* alternative is set) and a field with a requires list is set
C18_Witness ==
    /\ out.op = "check"
    /\ out.err = "none"
    /\ \E f \in Range(inputs.fields) :
         /\ inputs.meta[f].mandatory
         /\ inputs.values[f] = NOTHING
         /\ inputs.meta[f].xor \ {f} # {}
    /\ \E f \in Range(inputs.fields) :
         /\ inputs.values[f] # NOTHING
         /\ inputs.meta[f].requires \ {f} # {}


\* the membership state of a node: active, in flight, both or neither
Membership(gr, x) == <<x \in Range(gr.nodes), x \in Range(gr.node_wip)>>

\* the entries of a map between nodes outside S, as often as they are listed
EntriesOutside(map, S) ==
    [u \in DOMAIN map \ S |-> SelectSeq(map[u], LAMBDA v : v \notin S)]

\* n and the nodes an edge path leads to from n
Cancelled(gr, n) == {n} \cup Desc(Range(gr.edges), n)

\* what a call on n has to leave alone
FrameKept(gr, gr2, S) ==
    /\ \A x \in Names \ S : Membership(gr2, x) = Membership(gr, x)
    /\ SelectSeq(gr2.edges, LAMBDA e : e[1] \notin S /\ e[2] \notin S)
         = SelectSeq(gr.edges, LAMBDA e : e[1] \notin S /\ e[2] \notin S)
    /\ EntriesOutside(gr2.successors, S) = EntriesOutside(gr.successors, S)
    /\ EntriesOutside(gr2.predecessors, S) = EntriesOutside(gr.predecessors, S)

\* C19: RemoveSuccessorsNodes(n), returning or raising, leaves every node that
\* is neither n nor reached from n by edges active, in flight or detached as it
\* was, and leaves the edges and the entries of both maps between such nodes
\* as they were
C19_UnrelatedUntouched ==
    [][last'.op = "RemoveSuccessorsNodes" =>
          FrameKept(g, g', Cancelled(g, last'.nodes[1]))]_vars


\* the failed A of A->B, C->D was cancelled with its successor B; the branch
\* C->D is as it was
C19_Witness ==
    /\ last.op = "RemoveSuccessorsNodes" /\ last.err = "none"
    /\ last.nodes = <<"A">>
    /\ last.ret = {"B"}
    /\ g.nodes = <<"C", "D">>
    /\ g.edges = <<<<"C", "D">>>>
    /\ g.successors = [C |-> <<"D">>, D |-> <<>>]
    /\ g.predecessors = [C |-> <<>>, D |-> <<"C">>]


\* the number of edges on the longest path of active nodes that ends in n
\* (edges out of in-flight nodes do not count), on an acyclic edge set
RECURSIVE Depth(_, _)
Depth(gr, n) ==
    LET ups == {e[1] : e \in {d \in Range(gr.edges) : d[2] = n /\ d[1] \in Range(gr.nodes)}}
    IN  IF ups = {} THEN 0
        ELSE LET ds == {Depth(gr, u) : u \in ups}
             IN  1 + CHOOSE m \in ds : \A k \in ds : k <= m

\* the layer of every position of a sorted list
LayersOf(gr, s) == [i \in 1..Len(s) |-> Depth(gr, s[i])]

\* C21: on an unchanged graph a sort started from any permutation of the
\* active nodes ends as the unseeded sort ends, and when they return, the two
\* orders hold the same nodes and the same layer at every position, the layers
\* being taken in increasing order
C21_SeededSortEquivalent ==
    [][last'.op = "SortSeeded" =>
          LET u == sorting(g, <<>>)
          IN  /\ last'.err = u.err
              /\ g'.nodes = g.nodes /\ g'.edges = g.edges
              /\ last'.err = "none" =>
                    /\ IsPermutation(g'.sorted_nodes, u.g.sorted_nodes)
                    /\ LayersOf(g, g'.sorted_nodes) = LayersOf(g, u.g.sorted_nodes)
                    /\ \A i, j \in 1..Len(g'.sorted_nodes) :
                          i < j => LayersOf(g, g'.sorted_nodes)[i] <= LayersOf(g, g'.sorted_nodes)[j]]_vars

\* the graph A->B, B->C, B->D sorted from the seed D, C, B, A: the layers are
\* {A}, {B}, {C, D} and the last one comes in the seed's order
C21_Witness ==
    /\ last.op = "SortSeeded" /\ last.err = "none"
    /\ last.nodes = <<"D", "C", "B", "A">>
    /\ g.edges = <<<<"A", "B">>, <<"B", "C">>, <<"B", "D">>>>
    /\ g.sorted_nodes = <<"A", "B", "D", "C">>


\* the edge lists that lead from r to v, as sequences of nodes without
\* repetition; their lengths in edges
RECURSIVE PathLengths(_, _, _, _)
PathLengths(E, r, v, seen) ==
    UNION {IF e[2] = v THEN {1} ELSE {} : e \in {d \in E : d[1] = r}}
      \cup UNION {{1 + k : k \in PathLengths(E, e[2], v, seen \cup {r})} :
                     e \in {d \in E : d[1] = r /\ d[2] \notin seen \cup {r, v}}}

LongestPath(E, r, v) ==
    LET ls == PathLengths(E, r, v, {})
    IN  CHOOSE m \in ls : \A k \in ls : k <= m

\* C22: calculate_max_paths returns, and leaves one entry per node without
\* predecessors, holding for every node reached from it by edges the number of
\* edges of the longest path, and nothing for the other nodes
C22_MaxPaths ==
    last.op = "CalculateMaxPaths" =>
        LET E     == Range(g.edges)
            roots == {n \in Range(g.nodes) : \A e \in E : e[2] # n}
        IN  /\ last.err = "none"
            /\ DOMAIN last.ret = roots
            /\ \A r \in roots :
                 /\ DOMAIN last.ret[r] = Desc(E, r)
                 /\ \A v \in Desc(E, r) : last.ret[r][v] = LongestPath(E, r, v)

\* the same on the graphs whose edge list has no cycle
C22_MaxPathsOnAcyclic ==
    (last.op = "CalculateMaxPaths" /\ Acyclic(Range(g.edges))) =>
        LET E     == Range(g.edges)
            roots == {n \in Range(g.nodes) : \A e \in E : e[2] # n}
        IN  /\ last.err = "none"
            /\ DOMAIN last.ret = roots
            /\ \A r \in roots :
                 /\ DOMAIN last.ret[r] = Desc(E, r)
                 /\ \A v \in Desc(E, r) : last.ret[r][v] = LongestPath(E, r, v)


\* C23: RemovePreviousConnections(n) on an in-flight node n leaves no edge
\* with consumer n, n in no successor list, no key n in either map and n out of
\* the in-flight bucket, whether or not the predecessors of n still have their
\* keys, and it leaves the edges that do not touch n as they were
C23_DetachIncoming ==
    [][(/\ last'.op = "RemovePreviousConnections"
        /\ last'.err = "none"
        /\ last'.nodes[1] \in Range(g.node_wip)) =>
            LET n == last'.nodes[1]
            IN  /\ \A e \in Range(g'.edges) : e[2] # n
                /\ \A x \in DOMAIN g'.successors : n \notin Range(g'.successors[x])
                /\ n \notin DOMAIN g'.predecessors
                /\ n \notin DOMAIN g'.successors
                /\ n \notin Range(g'.node_wip)
                /\ SelectSeq(g'.edges, LAMBDA e : e[1] # n /\ e[2] # n)
                     = SelectSeq(g.edges, LAMBDA e : e[1] # n /\ e[2] # n)]_vars

\* C, the consumer of B->C, was cancelled after B had been detached with its
\* outgoing edges left in place: B had no key, and B->C is gone all the same
C23_Witness ==
    /\ last.op = "RemovePreviousConnections" /\ last.err = "none"
    /\ last.nodes = <<"C">>
    /\ last.edges = <<<<"B", "C">>>>
    /\ "B" \notin DOMAIN g.successors
    /\ "B" \notin Range(g.nodes) \cup Range(g.node_wip)
    /\ g.nodes = <<"A">>
    /\ g.edges = <<>>


\* the depths to which all Results of res are nested: one depth when the
\* nesting is even and holds a Result, none when it is ragged
Nesting(res) == {d \in 0..3 : NestedTo(res, d)}

Declared(lf) == Len(nested_sequence_types(lf.type, FALSE))

\* C24: resolving an output-direction promise against Results that are nested
\* deeper or less deep than the promise's type declares fails with TypeMismatch
C24_DepthMismatchFails ==
    (/\ out.op = "get_value"
     /\ lfs[out.src].attr_type = "output"
     /\ \E d \in 0..3 : Nesting(out.wf.result) = {d} /\ d # Declared(lfs[out.src])) =>
        out.err = "TypeMismatch"

\* the same for Results, none of them errored, nested deeper than declared
C24_DeeperFails ==
    (/\ out.op = "get_value"
     /\ lfs[out.src].attr_type = "output"
     /\ ~HasErrored(out.wf.result)
     /\ \E d \in 0..3 : Nesting(out.wf.result) = {d} /\ d > Declared(lfs[out.src])) =>
        out.err = "TypeMismatch"

\* no resolution against Results nested less deep than declared fails with
\* TypeMismatch
C24_ShallowerNeverFails ==
    (/\ out.op = "get_value"
     /\ lfs[out.src].attr_type = "output"
     /\ \E d \in 0..3 : Nesting(out.wf.result) = {d} /\ d < Declared(lfs[out.src])) =>
        out.err # "TypeMismatch"


\* the splitters a derivation took out of the node's open splitters
Removed(t, t2) == t.splits \ t2.splits

\* the composite splitters of a set that mention a name
Mentioning(splits, c) == {s \in splits : s # <<c>> /\ c \in Range(s)}

\* C25: a derivation that returns has removed, for every combiner that is an
\* open splitter, that splitter, for every other combiner a composite splitter
\* that mentions it, one splitter for each combiner and no splitter else
C25_CombinerRemovesSplitter ==
    [][(out'.op = "getattr" /\ out'.err = "none") =>
          LET R == Removed(task, task')
          IN  /\ task'.splits \subseteq task.splits
              /\ \A c \in Range(task.combines) :
                    IF <<c>> \in task.splits THEN <<c>> \in R
                    ELSE Mentioning(R, c) # {}
              /\ \A s \in R : \E c \in Range(task.combines) :
                    s = <<c>> \/ (<<c>> \notin task.splits /\ s \in Mentioning(task.splits, c))
              /\ Cardinality(R) = Len(task.combines)]_vars

\* y was combined on a node split over (x, y) and (y, z): the derivation took
\* (x, y) out and left (y, z) open
C25_Witness ==
    /\ out.op = "getattr" /\ out.err = "none"
    /\ steps = 2
    /\ task.combines = <<"y">>
    /\ task.splits = {<<"y", "z">>}
    /\ lfs[out.new].type = <<"Split", "List">> \o task.output_types["out"]

\* a value with its Split containers read as plain lists
RECURSIVE Unsplit(_)
Unsplit(v) ==
    IF v.kind = "atom" THEN v
    ELSE ListOf([i \in 1..Len(v.items) |-> Unsplit(v.items[i])])

\* no Split container anywhere in a value
RECURSIVE SplitFree(_)
SplitFree(v) ==
    v.kind # "split" /\ \A i \in 1..Len(v.items) : SplitFree(v.items[i])

\* the d outer levels of a value are Split containers and nothing below is
RECURSIVE SplitTo(_, _)
SplitTo(v, d) ==
    IF d = 0 THEN SplitFree(v)
    ELSE v.kind = "split" /\ \A i \in 1..Len(v.items) : SplitTo(v.items[i], d - 1)

\* an input-direction promise was resolved and a value came back
InputResolved ==
    /\ out.op = "get_value"
    /\ lfs[out.src].attr_type = "input"
    /\ out.err = "none"

\* C26: resolving an input-direction promise returns the bound input value
\* as it is when the workflow is in pre-split mode or the declared type has
\* no Split nesting, and otherwise the bound value wrapped in Split containers
\* to a depth equal to the number of open splitters of the promise
C26_WrappedPerOpenSplitter ==
    InputResolved =>
        IF out.wf.pre_split \/ SplitLevels(lfs[out.src].type) = 0
        THEN out.val = out.wf.value
        ELSE /\ Unsplit(out.val) = out.wf.value
             /\ SplitTo(out.val, Cardinality(lfs[out.src].splits))

\* what the code does: the depth of the wrapping is the number of Split
\* levels of the declared type, whatever the number of open splitters
C26_WrappedToDeclaredDepth ==
    InputResolved =>
        IF out.wf.pre_split \/ SplitLevels(lfs[out.src].type) = 0
        THEN out.val = out.wf.value
        ELSE /\ Unsplit(out.val) = out.wf.value
             /\ SplitTo(out.val, SplitLevels(lfs[out.src].type))

\* a promise of type Split[int] with x and y open, resolved against a list of
\* two lists: one level of Split came back around the two lists
C26_OneLevelForTwoSplitters ==
    /\ InputResolved
    /\ ~out.wf.pre_split
    /\ lfs[out.src].type = <<"Split", "int">>
    /\ lfs[out.src].splits = {<<"x">>, <<"y">>}
    /\ out.wf.value = ListOf(<<ListOf(<<Atom(1)>>), ListOf(<<Atom(1), Atom(2)>>)>>)
    /\ out.val = SplitOf(<<ListOf(<<Atom(1)>>), ListOf(<<Atom(1), Atom(2)>>)>>)

\* C27: after copy(), a call of AddNodes, AddEdges, RemoveNodes,
\* RemoveNodesConnections or Sort on the copy leaves the node list, in-flight
\* bucket, edge list, adjacency maps and cached sorted order of the original
\* as they were, and a call on the original leaves those of the copy as they
\* were
C27_CopyIndependent ==
    [][twin.made =>
          /\ twin'.on = "copy" => g' = g
          /\ twin'.on = "original" => twin'.g = twin.g]_vars

\* an edge was added on the copy of a graph and then the first node was
\* retired on the original: all four lists of the two graphs differ now
C27_Witness ==
    /\ twin.made /\ twin.on = "original"
    /\ last.op = "RemoveNodes" /\ last.err = "none"
    /\ steps = 2
    /\ Len(twin.g.edges) = Len(g.edges) + 1
    /\ Len(twin.g.nodes) = Len(g.nodes) + 1
    /\ twin.g.node_wip = <<>> /\ g.node_wip # <<>>
    /\ twin.g.predecessors # g.predecessors
    /\ twin.g.sorted_set /\ g.sorted_set /\ twin.g.sorted_nodes # g.sorted_nodes

\* C28: no sequence of Construct, AddNodes and AddEdges calls that all pass
\* the validation of the setters leaves a graph whose edge list holds a
\* directed cycle or a self-loop
C28_NoCycleThroughValidation ==
    (last.op \in {"Construct", "AddNodes", "AddEdges"} /\ last.err # "ConfigurationError") =>
        Acyclic(Range(g.edges))

\* the edge A->A went through the constructor
C28_SelfLoopConstructed ==
    /\ last.op = "Construct" /\ last.err = "none"
    /\ g.nodes = <<"A">>
    /\ g.edges = <<<<"A", "A">>>>

\* the edge C->A, added to the chain A->B->C, went through add_edges
C28_CycleClosedByAddEdges ==
    /\ last.op = "AddEdges" /\ last.edges = <<<<"C", "A">>>>
    /\ \A e \in {<<"A", "B">>, <<"B", "C">>, <<"C", "A">>} : e \in Range(g.edges)
    /\ g.sorted_set = FALSE

\* the call that made this step: add_edges with an edge of which an endpoint
\* is not an active node, or add_nodes with a node that is active already
StructuralError ==
    /\ steps' = steps + 1
    /\ \/ /\ last'.op = "AddEdges"
          /\ \E e \in Range(last'.edges) : e[1] \notin Range(g.nodes) \/ e[2] \notin Range(g.nodes)
       \/ /\ last'.op = "AddNodes"
          /\ \E n \in Range(last'.nodes) : n \in Range(g.nodes)

\* C29: AddEdges with an edge whose endpoint is not an active node, and
\* AddNodes with a node that is in the graph already, fail with
\* ConfigurationError and leave the node list, the edge list, both adjacency
\* maps, the in-flight bucket and the cached sorted order as they were
C29_FailFastNoEffect ==
    [][StructuralError => (last'.err = "ConfigurationError" /\ g' = g)]_vars

\* add_edges((A, B)) failed on a sorted graph from which A had been retired:
\* A is in flight, its edges are still in the edge list
C29_Witness ==
    /\ last.op = "AddEdges" /\ last.err = "ConfigurationError"
    /\ last.edges = <<<<"A", "B">>>>
    /\ "A" \in Range(g.node_wip) /\ "B" \in Range(g.nodes)
    /\ g.edges # <<>>
    /\ g.sorted_set /\ g.sorted_nodes # <<>>

\* add_nodes(B) failed on a sorted graph that holds B and an edge into B
C29_WitnessAddNodes ==
    /\ last.op = "AddNodes" /\ last.err = "ConfigurationError"
    /\ last.nodes = <<"B">>
    /\ g.predecessors["B"] # <<>>
    /\ g.sorted_set

\* the active nodes of which every predecessor is in flight (or that have none)
FirstLayer(gr) ==
    {n \in Range(gr.nodes) : \A p \in Range(gr.predecessors[n]) : p \in Range(gr.node_wip)}

\* the sorted list starts with the first layer
FirstLayerLeads(gr) ==
    /\ Len(gr.sorted_nodes) >= Cardinality(FirstLayer(gr))
    /\ Range(SubSeq(gr.sorted_nodes, 1, Cardinality(FirstLayer(gr)))) = FirstLayer(gr)

RemoveNodesRefused ==
    /\ last'.op = "RemoveNodes"
    /\ last'.check
    /\ last'.err \in {"NotReadyError", "NotInGraph"}

\* C31: when RemoveNodes(list, checkReady=true) fails with NotReadyError, or
\* because a target is not in the graph, no target of the list has been moved
\* to the in-flight bucket, and the active node list and the cached sorted
\* order are as before the call
C31_RemoveNodesAllOrNothing ==
    [][RemoveNodesRefused =>
          /\ g'.node_wip = g.node_wip
          /\ g'.nodes = g.nodes
          /\ g'.sorted_set = g.sorted_set
          /\ g'.sorted_nodes = g.sorted_nodes]_vars

\* what holds: a refused call on a single target changes nothing, and a
\* refused call never touches the cached sorted order, the edge list or the maps
C31_SingleTargetAllOrNothing ==
    [][RemoveNodesRefused =>
          /\ Len(last'.nodes) = 1 => g' = g
          /\ g'.sorted_set = g.sorted_set
          /\ g'.sorted_nodes = g.sorted_nodes
          /\ g'.edges = g.edges
          /\ g'.predecessors = g.predecessors
          /\ g'.successors = g.successors]_vars

\* remove_nodes([A, B]) on A->B was refused for B after A had been moved to
\* the in-flight bucket
C31_FirstTargetMoved ==
    /\ last.op = "RemoveNodes" /\ last.check /\ last.err = "NotReadyError"
    /\ last.nodes = <<"A", "B">>
    /\ g.node_wip = <<"A">>
    /\ "A" \notin Range(g.nodes)
    /\ "A" \in Range(g.sorted_nodes)

\* the call that made this step: remove_nodes on one active node that has no
\* predecessor left
ReadyNodeRetired ==
    /\ last'.op = "RemoveNodes"
    /\ Len(last'.nodes) = 1
    /\ last'.nodes[1] \in Range(g.nodes)
    /\ last'.nodes[1] \in DOMAIN g.predecessors
    /\ g.predecessors[last'.nodes[1]] = <<>>

\* C32: RemoveNodes of a ready active node succeeds whether or not the graph
\* was sorted before the call, and afterwards the cached sorted order is a
\* permutation of the remaining active nodes
C32_ReadyNodeRetires ==
    [][ReadyNodeRetired =>
          /\ last'.err = "none"
          /\ g'.sorted_set
          /\ IsPermutation(g'.sorted_nodes, g'.nodes)]_vars

\* what holds: on a graph with a cached sorted order that is a permutation of
\* its active nodes, and an edge list without a cycle, the call succeeds and
\* leaves such an order
C32_ReadyNodeRetiresWhenSorted ==
    [][(/\ ReadyNodeRetired
        /\ g.sorted_set
        /\ IsPermutation(g.sorted_nodes, g.nodes)
        /\ Acyclic(Range(g.edges))) =>
          /\ last'.err = "none"
          /\ g'.sorted_set
          /\ IsPermutation(g'.sorted_nodes, g'.nodes)]_vars

\* and on a graph that was never sorted the call never returns normally
\* (ValueError, or no return on a cycle), with the node moved
C32_UnsortedAlwaysFails ==
    [][(ReadyNodeRetired /\ ~g.sorted_set) =>
          /\ last'.err \in {"ValueError", "Hang"}
          /\ last'.nodes[1] \in Range(g'.node_wip)]_vars

\* the call that made this step: add_edges with edges between active nodes
\* that close no cycle
EdgesBetweenActiveAdded ==
    /\ last'.op = "AddEdges"
    /\ \A e \in Range(last'.edges) : e[1] \in Range(g.nodes) /\ e[2] \in Range(g.nodes)
    /\ Acyclic(Range(g.edges) \cup Range(last'.edges))

\* C33: AddEdges succeeds whenever both endpoints of every new edge are
\* active nodes, in every reachable state, the states where an in-flight node
\* still has edges in the edge list included
C33_AddEdgesBetweenActive ==
    [][EdgesBetweenActiveAdded => last'.err = "none"]_vars

\* what holds: the call succeeds when, besides, both endpoints of every edge
\* that is in the edge list already are active nodes, and it is refused
\* otherwise
C33_AddEdgesRevalidates ==
    [][EdgesBetweenActiveAdded =>
          IF \A e \in Range(g.edges) : e[1] \in Range(g.nodes) /\ e[2] \in Range(g.nodes)
          THEN last'.err = "none"
          ELSE last'.err = "ConfigurationError"]_vars

\* add_edges((B, C)) was refused on A->B, C with A in flight
C33_RefusedForOldEdge ==
    /\ last.op = "AddEdges" /\ last.err = "ConfigurationError"
    /\ last.edges = <<<<"B", "C">>>>
    /\ g.edges = <<<<"A", "B">>>>
    /\ g.node_wip = <<"A">>
    /\ {"B", "C"} \subseteq Range(g.nodes)

\* no active node, no in-flight node, no edge
Drained == g.nodes = <<>> /\ g.node_wip = <<>> /\ g.edges = <<>>

\* C34: on an acyclic graph, whenever the in-flight bucket is empty and there
\* are active nodes, the first node of the cached sorted order has an empty
\* predecessor list; the loop that retires the first sorted node with
\* check_ready and then detaches it never fails, and it ends in the state with
\* no active node, no in-flight node and no edge
C34_DrainProgress ==
    /\ [](/\ (Built /\ Acyclic(Range(g.edges)) /\ g.sorted_set
              /\ g.node_wip = <<>> /\ g.nodes # <<>>) =>
                 /\ g.sorted_nodes # <<>>
                 /\ g.sorted_nodes[1] \in Range(g.nodes)
                 /\ g.predecessors[g.sorted_nodes[1]] = <<>>
          /\ (last.op \in {"RemoveNodes", "RemoveNodesConnections"}
              /\ Acyclic(Range(g.edges))) => last.err = "none")
    /\ (Built /\ Acyclic(Range(g.edges))) ~> Drained

\* the last node of the chain A->B->C->D with the chord B->D was detached:
\* eight calls after the construction nothing is left
C34_Witness ==
    /\ last.op = "RemoveNodesConnections" /\ last.err = "none"
    /\ last.nodes = <<"D">>
    /\ steps = 8
    /\ Drained
    /\ g.sorted_set /\ g.sorted_nodes = <<>>
    /\ DOMAIN g.predecessors = {}

\* a derivation follows a derivation of the same field that returned; x is an
\* input only and out an output only, so that the second call is on the same
\* interface unless it raises AttributeError
DerivedAgain ==
    /\ out.op = "getattr" /\ out.err = "none"
    /\ out'.op = "getattr" /\ out'.arg = out.arg
    /\ out'.err # "AttributeError"

\* C35: a derivation that returns leaves the node's open splitters and
\* combiners as they were, and a second derivation of the same field right
\* after it returns too, with a promise of the same type and the same open
\* splitters
C35_DerivationRepeatable ==
    [][/\ (out'.op = "getattr" /\ out'.err = "none") =>
             /\ task'.splits = task.splits
             /\ task'.combines = task.combines
       /\ DerivedAgain =>
             /\ out'.err = "none"
             /\ lfs'[out'.new].type = lfs[out.new].type
             /\ SplitsOf(lfs'[out'.new], task') = SplitsOf(lfs[out.new], task)]_vars

\* what the code does keep: on a node without combiners a derivation changes
\* nothing on the node and is repeatable; on any node the combiners stay
C35_RepeatableWithoutCombiners ==
    [][/\ out'.op = "getattr" => task'.combines = task.combines
       /\ (out'.op = "getattr" /\ task.combines = <<>>) =>
             /\ task' = task
             /\ DerivedAgain =>
                   /\ out'.err = "none"
                   /\ lfs'[out'.new].type = lfs[out.new].type
                   /\ SplitsOf(lfs'[out'.new], task') = SplitsOf(lfs[out.new], task)]_vars

\* x was combined on a node split over x and y: the first derivation took x
\* out of the node's open splitters, the second finds no splitter for x
C35_SecondDerivationFails ==
    /\ out.op = "getattr" /\ out.err = "StopIteration"
    /\ steps = 3
    /\ Len(lfs) = 1
    /\ task.combines = <<"x">>
    /\ task.splits = {<<"y">>}

\* the fields retrieve_values reads: all of them, on a ShellSpec those
\* without an output_file_template
Retrieved(spec) ==
    {f \in Range(spec.fields) : ~(spec.shell /\ spec.meta[f].output_file_template)}

\* the promise-valued fields among a set of fields
PromisedIn(spec, F) == {f \in F : spec.values[f].is_lazy}

\* after a call that returned, the fields of F that held a promise hold the
\* value the promise resolves to and every other field is as it was
ResolvedIn(F) ==
    \A f \in Range(inputs.fields) :
        IF f \in PromisedIn(inputs, F)
        THEN LET r == get_value(inputs.values[f].lf, out'.arg)
             IN  r.err = "none" /\ inputs'.values[f] = Held(r.val)
        ELSE inputs'.values[f] = inputs.values[f]

\* C36: a resolution of the promised inputs of a spec that fails leaves every
\* field as it was, the promises in place; one that returns leaves every
\* promise-valued field with its resolved value and the other fields as they
\* were
C36_RetrieveAllOrNothing ==
    [][out'.op = "retrieve_values" =>
          IF out'.err # "none" THEN inputs' = inputs
          ELSE ResolvedIn(Range(inputs.fields))]_vars

\* C36 as the code has it: the same, for the promise-valued fields the call
\* reads; on a ShellSpec a field with an output_file_template is left alone,
\* a promise in it included
C36_RetrieveAllOrNothingOfRead ==
    [][out'.op = "retrieve_values" =>
          IF out'.err # "none" THEN inputs' = inputs
          ELSE ResolvedIn(Retrieved(inputs))]_vars

\* x resolved and the promise in y did not: after the call both fields hold
\* their promises
C36_Witness ==
    /\ out.op = "retrieve_values" /\ out.err = "UpstreamFailure"
    /\ steps = 1
    /\ ~inputs.shell
    /\ inputs.values["x"] = Promised(LazyField("wf", "x", "input", <<"int">>, FALSE, {}))
    /\ inputs.values["y"] = Promised(LazyField("a", "out", "output", <<"int">>, FALSE, {}))
    /\ out.arg.value = Atom(1)

\* a ShellSpec whose promises in x and y were resolved on the second call,
\* the promise in out_file being left
C36_WitnessShell ==
    /\ out.op = "retrieve_values" /\ out.err = "none"
    /\ steps = 2
    /\ inputs.shell
    /\ inputs.values["x"] = Held(Atom(1))
    /\ inputs.values["y"] = Held(ListOf(<<Atom(1)>>))
    /\ inputs.values["out_file"].is_lazy

====
